---------------------------- MODULE Spec2Model ----------------------------
(***************************************************************************)
(* A model of the STAN streaming server (src/server.go): the per-channel   *)
(* message log, the subscription store, the queue groups, the delivery     *)
(* engine, the acknowledgement and redelivery paths and the request        *)
(* handlers.                                                               *)
(*                                                                         *)
(* Scheduling.  initSubscriptions (server.go 403-438) registers one NATS   *)
(* subscription per request subject, and processSubscriptionRequest        *)
(* registers one per ack inbox.  The NATS client runs the callback of one  *)
(* subscription for one message at a time, and the callbacks of different  *)
(* subscriptions, as well as the time.AfterFunc callbacks, in parallel.    *)
(* The workers of the model are therefore: the connect, publish,           *)
(* subscribe, unsubscribe and close handlers (one each), the ack handlers  *)
(* and the ack timers.                                                     *)
(***************************************************************************)
EXTENDS Integers, Sequences, FiniteSets, TLC

(***************************************************************************)
(* Bounds of the model.                                                    *)
(***************************************************************************)
\* Sequence numbers are uint64 in the code; the model scales the width.
UintMod == 16
\* The store limit used for the message log on its own (the code's limit
\* is DefaultMsgStoreLimit; the scaled limit makes eviction happen).
ScaledStoreLimit == 3
\* Appends to the message log on its own.
MaxLogStores == 6
\* Messages published to the broker.
MaxMsgs == 2
\* Messages published to a channel with a queue group of members of
\* different maxInFlight.
MaxMixedMsgs == 3
\* Messages a client publishes.
MaxGuids == 2
\* The capacity of pubAckChan (Options.MaxPubAcksInflight, by default
\* DefaultMaxPubAcksInflight).
ScaledMaxPubAcksInflight == 2
\* Subscription records created (the arena's size).
MaxSubs == 2
\* Redeliveries to one subscription.
MaxRedeliver == 1
\* Redeliveries to one subscription under SpecRedelivery.
MaxBatch == 2
\* The time between the stores of two messages.
TickPerStore == 2
\* Successful Connect requests.
MaxConnects == 2
\* Ack timers left pending by the code without a Stop, per subscription.
MaxOrphans == 1
\* The failed heartbeats a client may have before it is closed (the code's
\* limit is DefaultMaxFailedHeartBeats; the scaled limit keeps the counter
\* small).
ScaledMaxFailedHeartBeats == 2

(***************************************************************************)
(* Program constants.                                                      *)
(***************************************************************************)
DefaultMsgStoreLimit == 1000000
\* int((5 * time.Minute) / DefaultHeartBeatInterval), with an interval of 30s
DefaultMaxFailedHeartBeats == 10

\* Error texts of the responses (server.go 43-56).
OK == "ok"
ErrBadPubMsg == "stan: malformed publish message envelope"
ErrInvalidSubject == "stan: invalid subject"
ErrInvalidSequence == "stan: invalid start sequence"
ErrInvalidTime == "stan: invalid start time"
\* A handler that panicked sends no response.
NoResponse == "no response"
ErrInvalidSub == "stan: invalid subscription"
ErrInvalidConnReq == "stan: invalid connection request"
ErrInvalidClient == "stan: clientID already registered"
ErrInvalidAckWait == "stan: invalid ack wait time, should be >= 1s"
ErrDupDurable == "stan: duplicate durable registration"
ErrDurableQueue == "stan: queue subscribers can't be durable"
ErrMissingClientID == "stan: malformed subscription request, clientID missing."

\* pb.StartPosition
NewOnly == "NewOnly"
LastReceived == "LastReceived"
SequenceStart == "SequenceStart"
First == "First"
TimeDeltaStart == "TimeDeltaStart"

(***************************************************************************)
(* Generic helpers.                                                        *)
(***************************************************************************)
Inc(x) == (x + 1) % UintMod
Dec(x) == (x + UintMod - 1) % UintMod

Min(S) == CHOOSE x \in S : \A y \in S : x <= y

\* delete(m, k) on a Go map.
MapDelete(m, k) == [x \in (DOMAIN m) \ {k} |-> m[x]]
\* m[k] = v on a Go map.
MapPut(m, k, v) == [x \in (DOMAIN m) \cup {k} |-> IF x = k THEN v ELSE m[x]]

EmptyMap == [x \in {} |-> 0]

\* The keys of a map whose keys are numbers, in increasing order.
RECURSIVE SortedKeys(_)
SortedKeys(S) ==
    IF S = {} THEN <<>> ELSE <<Min(S)>> \o SortedKeys(S \ {Min(S)})

(***************************************************************************)
(* Subjects.  A subject is a string; the model keeps it as the sequence of *)
(* its characters so that isValidSubject can look at them.                 *)
(***************************************************************************)
Foo == <<"f", "o", "o">>
FooStar == <<"f", "o", "o", ".", "*">>
FooGt == <<"f", "o", "o", ".", ">">>
BStarR == <<"b", "*", "r">>

RECURSIVE Str(_)
Str(cs) == IF cs = <<>> THEN "" ELSE Head(cs) \o Str(Tail(cs))

\* strings.Split(subject, "."): a subject always has at least one token.
RECURSIVE Split(_, _)
Split(cs, cur) ==
    IF cs = <<>> THEN <<cur>>
    ELSE IF Head(cs) = "." THEN <<cur>> \o Split(Tail(cs), <<>>)
    ELSE Split(Tail(cs), Append(cur, Head(cs)))

\* strings.ContainsAny(token, ">*")
ContainsAny(token) == \E i \in 1..Len(token) : token[i] \in {">", "*"}

isValidSubjectAlways(subject) == TRUE

isValidSubject(subject) ==
    LET tokens == Split(subject, <<>>)
    IN  IF Len(tokens) = 0 THEN FALSE
        ELSE \A i \in 1..Len(tokens) : ~ContainsAny(tokens[i])

(***************************************************************************)
(* The message log of a channel (msgStore).                                *)
(***************************************************************************)
MsgProto(seq, reply, data) ==
    [Sequence |-> seq, Reply |-> reply, Data |-> data, Redelivered |-> FALSE]

NilMsg == [Sequence |-> 0, Reply |-> "", Data |-> "nil", Redelivered |-> FALSE]

\* The msgStore a new channel gets (channelMap.New).
NewMsgStore == [first |-> 1, last |-> 0, msgs |-> EmptyMap]

\* A faulty Store: the eviction deletes the oldest message and keeps first.
msgStoreStoreKeepsFirst(ms, reply, data, limit) ==
    LET last == Inc(ms.last)
        msgs == MapPut(ms.msgs, last, MsgProto(last, reply, data))
    IN  IF Cardinality(DOMAIN msgs) > limit
        THEN [first |-> ms.first, last |-> last, msgs |-> MapDelete(msgs, ms.first)]
        ELSE [first |-> ms.first, last |-> last, msgs |-> msgs]

\* msgStore.Store, with the limit it compares len(ms.msgs) to.
msgStoreStore(ms, reply, data, limit) ==
    LET last == Inc(ms.last)
        msgs == MapPut(ms.msgs, last, MsgProto(last, reply, data))
    IN  IF Cardinality(DOMAIN msgs) > limit
        THEN [first |-> Inc(ms.first), last |-> last,
              msgs |-> MapDelete(msgs, ms.first)]
        ELSE [first |-> ms.first, last |-> last, msgs |-> msgs]

\* msgStore.Lookup: the message, or nil.
msgStoreLookup(ms, seq) ==
    IF seq \in DOMAIN ms.msgs THEN ms.msgs[seq] ELSE NilMsg


(***************************************************************************)
(* The broker's state, as a record b:                                      *)
(*   channels  channelMap.channels: subject -> channelStore, a record      *)
(*             [msgs, psubs, qsubs, durables, acks] (msgStore, subStore)   *)
(*   subs      the subState objects, by the order of their creation; the   *)
(*             lists and maps of the code hold pointers, the model indices *)
(*   clients   clientStore.clients: clientID -> client                     *)
(*   out       per subState, the messages nc.Publish sent to its inbox     *)
(*   ackSubs   the ack inboxes with a live NATS subscription               *)
(*   ncOk      whether nc.Publish succeeds                                 *)
(*   panicked  a nil dereference ended the process                         *)
(***************************************************************************)
NoSub == 0

\* channelMap.New
NewChannelStore ==
    [msgs |-> NewMsgStore, psubs |-> <<>>, qsubs |-> EmptyMap,
     durables |-> EmptyMap, acks |-> EmptyMap]

NewQueueState == [lastSent |-> 0, subs |-> <<>>, stalled |-> FALSE]

\* channelMap.Lookup
HasChannel(b, subject) == subject \in DOMAIN b.channels

\* channelMap.LookupOrCreate
LookupOrCreate(b, subject) ==
    IF HasChannel(b, subject) THEN b
    ELSE [b EXCEPT !.channels = MapPut(@, subject, NewChannelStore)]

\* subState.isDurable
isDurable(sub) == sub.durableName # ""

\* durableKey: fmt.Sprintf("%s-%s-%s", clientID, subject, durableName)
durableKey(clientID, subject, durableName) ==
    IF durableName = "" THEN ""
    ELSE clientID \o "-" \o Str(subject) \o "-" \o durableName

\* subState.deleteFromList: the last element takes the place of the deleted.
deleteFromList(s, sl) ==
    IF \E i \in 1..Len(sl) : sl[i] = s
    THEN LET i == Min({j \in 1..Len(sl) : sl[j] = s})
             moved == [sl EXCEPT ![i] = sl[Len(sl)]]
         IN  SubSeq(moved, 1, Len(sl) - 1)
    ELSE sl

\* len(sub.acksPending)
NumPending(b, s) == Cardinality(DOMAIN b.subs[s].acksPending)

\* A faulty selection: a later member replaces the best on a tie.
RECURSIVE findBestFromLast(_, _, _)
findBestFromLast(b, sl, rsub) ==
    IF sl = <<>> THEN rsub
    ELSE IF rsub = NoSub THEN findBestFromLast(b, Tail(sl), Head(sl))
    ELSE IF NumPending(b, Head(sl)) <= NumPending(b, rsub)
         THEN findBestFromLast(b, Tail(sl), Head(sl))
         ELSE findBestFromLast(b, Tail(sl), rsub)

\* The loop of findBestQueueSub, with rsub as it stands.
RECURSIVE findBestFrom(_, _, _)
findBestFrom(b, sl, rsub) ==
    IF sl = <<>> THEN rsub
    ELSE IF rsub = NoSub THEN findBestFrom(b, Tail(sl), Head(sl))
    ELSE IF NumPending(b, Head(sl)) < NumPending(b, rsub)
         THEN findBestFrom(b, Tail(sl), Head(sl))
         ELSE findBestFrom(b, Tail(sl), rsub)

findBestQueueSubLast(b, sl) == findBestFromLast(b, sl, NoSub)

\* findBestQueueSub: NoSub stands for nil.
findBestQueueSub(b, sl) == findBestFrom(b, sl, NoSub)

\* nc.Publish(sub.inbox, m): recorded in out.
Deliver(b, s, inbox, m) ==
    [b EXCEPT !.out[s] = Append(@, [seq |-> m.Sequence,
                                    redelivered |-> m.Redelivered,
                                    inbox |-> inbox])]

\* sub.ackTimer = time.AfterFunc(...) when sub.ackTimer == nil
ArmIfNil(t) == IF t = "nil" THEN "armed" ELSE t

\* A faulty send: no check of the number of pending acks.
sendMsgToSubNoLimit(b, s, m) ==
    IF ~b.ncOk THEN [b |-> b, ok |-> FALSE]
    ELSE [b |-> [Deliver(b, s, b.subs[s].inbox, m) EXCEPT
                    !.subs[s].lastSent = m.Sequence,
                    !.subs[s].acksPending = MapPut(@, m.Sequence, m),
                    !.subs[s].ackTimer = ArmIfNil(@)],
          ok |-> TRUE]

\* A faulty send: lastSent is not set back when nc.Publish fails.
sendMsgToSubKeepsLastSent(b, s, m) ==
    IF NumPending(b, s) >= b.subs[s].maxInFlight
    THEN [b |-> [b EXCEPT !.subs[s].stalled = TRUE], ok |-> FALSE]
    ELSE IF ~b.ncOk
    THEN [b |-> [b EXCEPT !.subs[s].lastSent = m.Sequence], ok |-> FALSE]
    ELSE [b |-> [Deliver(b, s, b.subs[s].inbox, m) EXCEPT
                    !.subs[s].lastSent = m.Sequence,
                    !.subs[s].acksPending = MapPut(@, m.Sequence, m),
                    !.subs[s].ackTimer = ArmIfNil(@)],
          ok |-> TRUE]

\* sendMsgToSub: the broker after the call and the call's result.
sendMsgToSub(b, s, m) ==
    IF NumPending(b, s) >= b.subs[s].maxInFlight
    THEN [b |-> [b EXCEPT !.subs[s].stalled = TRUE], ok |-> FALSE]
    ELSE IF ~b.ncOk THEN [b |-> b, ok |-> FALSE]
    ELSE [b |-> [Deliver(b, s, b.subs[s].inbox, m) EXCEPT
                    !.subs[s].lastSent = m.Sequence,
                    !.subs[s].acksPending = MapPut(@, m.Sequence, m),
                    !.subs[s].ackTimer = ArmIfNil(@)],
          ok |-> TRUE]

\* A faulty sendMsgToQueueGroup: qs.lastSent is left as it is.
sendMsgToQueueGroupKeepsLast(b, subject, g, m) ==
    LET qs == b.channels[subject].qsubs[g]
        s == findBestQueueSub(b, qs.subs)
    IN  IF s = NoSub THEN [b |-> b, ok |-> FALSE]
        ELSE LET r == sendMsgToSub(b, s, m)
             IN  IF ~r.ok
                 THEN [b |-> [r.b EXCEPT
                                !.channels[subject].qsubs[g].stalled = TRUE],
                       ok |-> FALSE]
                 ELSE [b |-> r.b, ok |-> TRUE]

\* sendMsgToQueueGroup, for the queueState of group g of the channel.
sendMsgToQueueGroup(b, subject, g, m) ==
    LET qs == b.channels[subject].qsubs[g]
        s == findBestQueueSub(b, qs.subs)
    IN  IF s = NoSub THEN [b |-> b, ok |-> FALSE]
        ELSE LET r == sendMsgToSub(b, s, m)
                 lastSent == r.b.subs[s].lastSent
             IN  IF ~r.ok
                 THEN [b |-> [r.b EXCEPT
                                !.channels[subject].qsubs[g].stalled = TRUE],
                       ok |-> FALSE]
                 ELSE IF lastSent > qs.lastSent
                 THEN [b |-> [r.b EXCEPT
                                !.channels[subject].qsubs[g].lastSent = lastSent],
                       ok |-> TRUE]
                 ELSE [b |-> r.b, ok |-> TRUE]

\* The loop of sendAvailableMessagesToQueue from nextSeq on.
RECURSIVE sendToQueueFrom(_, _, _, _)
sendToQueueFrom(b, subject, g, nextSeq) ==
    LET nextMsg == msgStoreLookup(b.channels[subject].msgs, nextSeq)
    IN  IF nextMsg = NilMsg THEN b
        ELSE LET r == sendMsgToQueueGroup(b, subject, g, nextMsg)
             IN  IF ~r.ok THEN r.b
                 ELSE sendToQueueFrom(r.b, subject, g, Inc(nextSeq))

\* sendAvailableMessagesToQueue
sendAvailableMessagesToQueue(b, subject, g) ==
    sendToQueueFrom(b, subject, g, Inc(b.channels[subject].qsubs[g].lastSent))

\* The loop of sendAvailableMessages from nextSeq on.
RECURSIVE sendToSubFrom(_, _, _, _)
sendToSubFrom(b, subject, s, nextSeq) ==
    LET nextMsg == msgStoreLookup(b.channels[subject].msgs, nextSeq)
    IN  IF nextMsg = NilMsg THEN b
        ELSE LET r == sendMsgToSub(b, s, nextMsg)
             IN  IF ~r.ok THEN r.b
                 ELSE sendToSubFrom(r.b, subject, s, Inc(nextSeq))

\* sendAvailableMessages
sendAvailableMessages(b, subject, s) ==
    sendToSubFrom(b, subject, s, Inc(b.subs[s].lastSent))


(***************************************************************************)
(* The subscription store of a channel (subStore).                         *)
(***************************************************************************)
\* A faulty Store: a queue subscriber always gets a new queueState.
subStoreStoreNewGroup(b, subject, s) ==
    LET sub == b.subs[s]
        cs == b.channels[subject]
        g == sub.qgroup
        byType ==
            IF g # ""
            THEN [cs EXCEPT !.acks = MapPut(@, sub.ackInbox, s),
                            !.qsubs = MapPut(@, g, [NewQueueState EXCEPT !.subs = <<s>>])]
            ELSE [cs EXCEPT !.acks = MapPut(@, sub.ackInbox, s),
                            !.psubs = Append(@, s)]
        stored ==
            IF isDurable(sub)
            THEN [byType EXCEPT !.durables =
                    MapPut(@, durableKey(sub.clientID, sub.subject, sub.durableName), s)]
            ELSE byType
    IN  [b EXCEPT !.channels[subject] = stored,
                  !.subs[s].qstate = IF g # "" THEN g ELSE @]

\* subStore.Store of subState s into the channel of subject.
subStoreStore(b, subject, s) ==
    LET sub == b.subs[s]
        cs == b.channels[subject]
        g == sub.qgroup
        qs == IF g \in DOMAIN cs.qsubs THEN cs.qsubs[g] ELSE NewQueueState
        byType ==
            IF g # ""
            THEN [cs EXCEPT !.acks = MapPut(@, sub.ackInbox, s),
                            !.qsubs = MapPut(@, g, [qs EXCEPT !.subs = Append(@, s)])]
            ELSE [cs EXCEPT !.acks = MapPut(@, sub.ackInbox, s),
                            !.psubs = Append(@, s)]
        stored ==
            IF isDurable(sub)
            THEN [byType EXCEPT !.durables =
                    MapPut(@, durableKey(sub.clientID, sub.subject, sub.durableName), s)]
            ELSE byType
    IN  [b EXCEPT !.channels[subject] = stored,
                  !.subs[s].qstate = IF g # "" THEN g ELSE @]

\* subStore.Remove of subState s from the channel of subject.  The durables
\* map is keyed by durableKey and Remove deletes the key durableName.
subStoreRemove(b, subject, s) ==
    LET sub == b.subs[s]
        cs == b.channels[subject]
        noAck == [cs EXCEPT !.acks = MapDelete(@, sub.ackInbox)]
        noDur == IF sub.durableName # ""
                 THEN [noAck EXCEPT !.durables = MapDelete(@, sub.durableName)]
                 ELSE noAck
        noSub == IF sub.qstate # ""
                 THEN IF sub.qstate \in DOMAIN noDur.qsubs
                      THEN [noDur EXCEPT !.qsubs[sub.qstate].subs = deleteFromList(s, @)]
                      ELSE noDur
                 ELSE [noDur EXCEPT !.psubs = deleteFromList(s, @)]
    IN  [b EXCEPT !.channels[subject] = noSub,
                  !.subs[s].clientID = "",
                  !.ackSubs = @ \ {sub.ackSub}]

\* A faulty LookupByDurable: no durable is ever found.
LookupByDurableNone(b, subject, key) == NoSub

\* subStore.LookupByDurable
LookupByDurable(b, subject, key) ==
    IF key \in DOMAIN b.channels[subject].durables
    THEN b.channels[subject].durables[key] ELSE NoSub

\* subStore.LookupByAckInbox
LookupByAckInbox(b, subject, ackInbox) ==
    IF ackInbox \in DOMAIN b.channels[subject].acks
    THEN b.channels[subject].acks[ackInbox] ELSE NoSub

(***************************************************************************)
(* Ack timers.  sub.ackTimer is "nil", "armed" (the timer is pending) or   *)
(* "fired" (the pointer is set, the timer is not pending).  orphans counts *)
(* the pending timers of the subscription that sub.ackTimer no longer      *)
(* points to: the code assigns nil to sub.ackTimer without a Stop.         *)
(***************************************************************************)
\* subState.clearAckTimer
clearAckTimer(sub) == [sub EXCEPT !.ackTimer = "nil"]

\* sub.ackTimer = nil
dropAckTimer(sub) ==
    [sub EXCEPT !.ackTimer = "nil",
                !.orphans = IF sub.ackTimer = "armed" THEN @ + 1 ELSE @]

(***************************************************************************)
(* Acknowledgements.                                                       *)
(***************************************************************************)
\* A faulty processAck: no delivery resumes after the ack.
processAckNoResume(b, subject, s, seq) ==
    LET sub == b.subs[s]
        pending == MapDelete(sub.acksPending, seq)
    IN  [b EXCEPT !.subs[s].acksPending = pending,
                  !.subs[s].stalled =
                      IF Cardinality(DOMAIN pending) < sub.maxInFlight
                      THEN FALSE ELSE @,
                  !.subs[s].ackTimer =
                      IF DOMAIN pending = {} THEN "nil" ELSE @]

\* A faulty processAck: no delivery to a queue group resumes after the ack.
processAckPlainResume(b, subject, s, seq) ==
    LET sub == b.subs[s]
        pending == MapDelete(sub.acksPending, seq)
        subStalled == sub.stalled
        timer == IF sub.ackTimer = "nil" THEN "nil"
                 ELSE IF DOMAIN pending = {} THEN "nil" ELSE "armed"
        b1 == [b EXCEPT !.subs[s].acksPending = pending,
                        !.subs[s].stalled =
                            IF Cardinality(DOMAIN pending) < sub.maxInFlight
                            THEN FALSE ELSE @,
                        !.subs[s].ackTimer = timer]
        g == sub.qstate
        stalled == IF g # "" THEN b.channels[subject].qsubs[g].stalled
                   ELSE subStalled
        b2 == IF g # "" THEN [b1 EXCEPT !.channels[subject].qsubs[g].stalled = FALSE]
              ELSE b1
    IN  IF ~stalled THEN b2
        ELSE IF g # "" THEN b2
        ELSE sendAvailableMessages(b2, subject, s)

\* processAck(cs, sub, ack), for a sub that is not nil.
processAck(b, subject, s, seq) ==
    LET sub == b.subs[s]
        pending == MapDelete(sub.acksPending, seq)
        subStalled == sub.stalled
        timer == IF sub.ackTimer = "nil" THEN "nil"
                 ELSE IF DOMAIN pending = {} THEN "nil" ELSE "armed"
        b1 == [b EXCEPT !.subs[s].acksPending = pending,
                        !.subs[s].stalled =
                            IF Cardinality(DOMAIN pending) < sub.maxInFlight
                            THEN FALSE ELSE @,
                        !.subs[s].ackTimer = timer]
        g == sub.qstate
        stalled == IF g # "" THEN b.channels[subject].qsubs[g].stalled
                   ELSE subStalled
        b2 == IF g # "" THEN [b1 EXCEPT !.channels[subject].qsubs[g].stalled = FALSE]
              ELSE b1
    IN  IF ~stalled THEN b2
        ELSE IF g # "" THEN sendAvailableMessagesToQueue(b2, subject, g)
        ELSE sendAvailableMessages(b2, subject, s)


(***************************************************************************)
(* The client store (clientStore: Lookup, Register, Unregister, AddSub,    *)
(* RemoveSub, isValidClient).                                              *)
(***************************************************************************)
\* locked: a goroutine holds the write lock of the client and never lets go.
NewClient(hbInbox) ==
    [hbInbox |-> hbInbox, subs |-> <<>>, fhb |-> 0, locked |-> FALSE]

\* client.Lock() or client.RLock() would block for ever.
ClientLocked(b, clientID) ==
    clientID \in DOMAIN b.clients /\ b.clients[clientID].locked

\* clientStore.Lookup(clientID) != nil
HasClient(b, clientID) == clientID \in DOMAIN b.clients

isValidClient(b, clientID) == HasClient(b, clientID)

\* clientStore.Register
Register(b, clientID, hbInbox) ==
    [b EXCEPT !.clients = MapPut(@, clientID, NewClient(hbInbox))]

\* clientStore.Unregister
Unregister(b, clientID) == [b EXCEPT !.clients = MapDelete(@, clientID)]

\* client.AddSub
AddSub(b, clientID, s) == [b EXCEPT !.clients[clientID].subs = Append(@, s)]

\* client.RemoveSub
RemoveSub(b, clientID, s) ==
    [b EXCEPT !.clients[clientID].subs = deleteFromList(s, @)]

(***************************************************************************)
(* Redelivery.                                                             *)
(***************************************************************************)
\* A faulty makeSortedMsgs: the copies are left in an order of the map's
\* iteration, here by decreasing sequence.
makeSortedMsgsUnsorted(pending) ==
    LET keys == SortedKeys(DOMAIN pending)
        n == Len(keys)
    IN  [i \in 1..n |-> pending[keys[n + 1 - i]]]

\* makeSortedMsgs: copies of the pending messages, by sequence.
makeSortedMsgs(pending) ==
    LET keys == SortedKeys(DOMAIN pending)
    IN  [i \in 1..Len(keys) |-> pending[keys[i]]]

\* What becomes of the timer performRedelivery read from sub.ackTimer, when
\* sub.ackTimer is assigned nil: "cur" while sub.ackTimer still points to it.
Detached(snap, timer) ==
    IF snap = "cur" THEN (IF timer = "armed" THEN "pending" ELSE "dead")
    ELSE snap

\* The loop of performRedelivery over the rest of sortedMsgs, of which the
\* first `expired` have remaining <= 0 or are sent whatever remains.
\* ctx holds what the function read under the read lock: inbox, subject, qs.
RECURSIVE redeliver(_, _, _, _, _, _)
redeliver(b, s, todo, expired, snap, ctx) ==
    IF todo = <<>> THEN b
    ELSE IF expired = 0
    THEN \* ackTimer.Reset(remaining); return
         CASE snap = "nil" -> [b EXCEPT !.panicked = TRUE]
           [] snap = "cur" -> [b EXCEPT !.subs[s].ackTimer = "armed"]
           [] snap = "pending" -> b
           [] OTHER -> [b EXCEPT !.subs[s].orphans = @ + 1]
    ELSE LET m == [Head(todo) EXCEPT !.Redelivered = TRUE]
             sub == b.subs[s]
         IN  IF ctx.qs # ""
             THEN LET pend == MapDelete(sub.acksPending, m.Sequence)
                      emptied == DOMAIN pend = {}
                      b1 == [b EXCEPT !.subs[s] =
                                IF emptied
                                THEN clearAckTimer([sub EXCEPT !.acksPending = pend])
                                ELSE [sub EXCEPT !.acksPending = pend]]
                      snap1 == IF emptied /\ snap = "cur" THEN "dead" ELSE snap
                      qsub == findBestQueueSub(b1,
                                  b1.channels[ctx.subject].qsubs[ctx.qs].subs)
                  IN  IF qsub = NoSub THEN b1
                      ELSE LET b2 == [b1 EXCEPT !.subs[qsub] = dropAckTimer(@)]
                               snap2 == IF qsub = s
                                        THEN Detached(snap1, b1.subs[s].ackTimer)
                                        ELSE snap1
                               r == sendMsgToSub(b2, qsub, m)
                           IN  redeliver(r.b, s, Tail(todo), expired - 1, snap2, ctx)
             ELSE LET b1 == [b EXCEPT !.subs[s] = dropAckTimer(@)]
                      snap1 == Detached(snap, sub.ackTimer)
                  IN  IF ~b.ncOk THEN b1
                      ELSE redeliver(Deliver(b1, s, ctx.inbox, m), s, Tail(todo),
                                     expired - 1, snap1, ctx)

\* performRedelivery(sub, checkExpiration); with checkExpiration, the first
\* `expired` of the sorted pending messages have remaining <= 0.
performRedelivery(b, s, checkExpiration, expired) ==
    LET sub == b.subs[s]
        sortedMsgs == makeSortedMsgs(sub.acksPending)
        ctx == [inbox |-> sub.inbox, subject |-> sub.subject, qs |-> sub.qstate]
        snap == IF sub.ackTimer = "nil" THEN "nil" ELSE "cur"
    IN  IF ~HasClient(b, sub.clientID) THEN b
        ELSE IF b.clients[sub.clientID].fhb # 0 THEN b
        ELSE redeliver(b, s, sortedMsgs,
                       IF checkExpiration THEN expired ELSE Len(sortedMsgs),
                       snap, ctx)

\* performDurableRedelivery
performDurableRedelivery(b, s) == performRedelivery(b, s, FALSE, 0)

\* performAckExpirationRedelivery
performAckExpirationRedelivery(b, s, expired) == performRedelivery(b, s, TRUE, expired)


(***************************************************************************)
(* The search by timestamp.                                                *)
(***************************************************************************)
\* A faulty search: the message has to be later than the timestamp.
searchFromLater(stamps, timestamp, i, j) ==
    LET idx == CHOOSE k \in 0..Len(stamps) :
                  /\ \A q \in 1..k : ~(stamps[q] > timestamp)
                  /\ k < Len(stamps) => stamps[k + 1] > timestamp
    IN  idx

\* sort.Search(n, f) from i = 0, j = n, with f(h) the test of the message
\* of index h: m.Timestamp >= timestamp.  stamps[h + 1] is the timestamp of
\* msgs[uint64(h) + first].
RECURSIVE searchFrom(_, _, _, _)
searchFrom(stamps, timestamp, i, j) ==
    IF i < j
    THEN LET h == (i + j) \div 2
         IN  IF ~(stamps[h + 1] >= timestamp)
             THEN searchFrom(stamps, timestamp, h + 1, j)
             ELSE searchFrom(stamps, timestamp, i, h)
    ELSE i

\* genericMsgStore.GetSequenceFromTimestamp
GetSequenceFromTimestamp(gms, timestamp) ==
    searchFrom(gms.stamps, timestamp, 0, Len(gms.stamps)) + gms.first

\* The startSeq of sendMessagesToSubFromTime.
startSeqFromTime(ms, startTime) ==
    searchFrom(ms.stamps, startTime, 0, Len(ms.stamps)) + ms.first

(***************************************************************************)
(* Request handlers, as functions of the broker and the request.           *)
(***************************************************************************)
\* startSequenceValid
startSequenceValid(b, subject, seq) ==
    LET ms == b.channels[subject].msgs
    IN  ~(seq > ms.last \/ seq < ms.first)

\* m.Timestamp of the message of a sequence: the clock of msgStore.Store
\* advances by TickPerStore from one message to the next.
TimestampOf(seq) == TickPerStore * seq

\* msgStore.FirstMsg and msgStore.LastMsg: the message, or nil.
msgStoreFirstMsg(ms) == IF ms.first \in DOMAIN ms.msgs THEN ms.msgs[ms.first] ELSE NilMsg
msgStoreLastMsg(ms) == IF ms.last \in DOMAIN ms.msgs THEN ms.msgs[ms.last] ELSE NilMsg

\* A faulty startTimeValid: every start time is taken.
startTimeValidAlways(b, subject, start) == "valid"

\* startTimeValid: "valid", "invalid", or "panic" for the Timestamp of a
\* nil message.
startTimeValid(b, subject, start) ==
    LET ms == b.channels[subject].msgs
        firstMsg == msgStoreFirstMsg(ms)
        lastMsg == msgStoreLastMsg(ms)
    IN  IF lastMsg = NilMsg THEN "panic"
        ELSE IF start > TimestampOf(lastMsg.Sequence) THEN "invalid"
        ELSE IF firstMsg = NilMsg THEN "panic"
        ELSE IF start < TimestampOf(firstMsg.Sequence) THEN "invalid"
        ELSE "valid"

\* The subState processSubscriptionRequest creates (1073-1084).
NewSubState(sr, inbox, ackInbox) ==
    [clientID |-> sr.ClientID, subject |-> sr.Subject, qgroup |-> sr.QGroup,
     inbox |-> inbox, ackInbox |-> ackInbox, durableName |-> sr.DurableName,
     qstate |-> "", lastSent |-> 0, ackTimer |-> "nil", orphans |-> 0,
     ackSub |-> 0, acksPending |-> EmptyMap, maxInFlight |-> sr.MaxInFlight,
     stalled |-> FALSE]

Reply(b, resp, s) == [b |-> b, resp |-> resp, s |-> s]

\* processSubscriptionRequest up to the response (980-1105).  The request's
\* inbox and the ack inbox of nats.NewInbox() are new names: b.nextInbox.
\* The result: the broker, the response, and the subState (NoSub on error).
subscriptionRequest(b, sr) ==
    IF sr.AckWaitInSecs <= 0 THEN Reply(b, ErrInvalidAckWait, NoSub)
    ELSE IF ~isValidSubject(sr.Subject) THEN Reply(b, ErrInvalidSubject, NoSub)
    ELSE IF sr.ClientID = "" THEN Reply(b, ErrMissingClientID, NoSub)
    ELSE
    LET b1 == LookupOrCreate(b, sr.Subject)
        inbox == b.nextInbox
        found == IF sr.DurableName # ""
                 THEN LookupByDurable(b1, sr.Subject,
                          durableKey(sr.ClientID, sr.Subject, sr.DurableName))
                 ELSE NoSub
    IN  IF sr.DurableName # "" /\ sr.QGroup # ""
        THEN Reply(b1, ErrDurableQueue, NoSub)
        ELSE IF found # NoSub /\ b1.subs[found].clientID # ""
        THEN Reply(b1, ErrDupDurable, NoSub)
        ELSE
        LET b2 == IF found # NoSub
                  THEN [b1 EXCEPT !.subs[found].clientID = sr.ClientID,
                                  !.subs[found].ackInbox = inbox,
                                  !.subs[found].inbox = inbox,
                                  !.nextInbox = @ + 1]
                  ELSE b1
        IN  IF sr.StartPosition = SequenceStart
               /\ ~startSequenceValid(b2, sr.Subject, sr.StartSequence)
            THEN Reply(b2, ErrInvalidSequence, NoSub)
            ELSE IF sr.StartPosition = TimeDeltaStart
                    /\ startTimeValid(b2, sr.Subject, sr.StartTime) = "invalid"
            THEN Reply(b2, ErrInvalidTime, NoSub)
            ELSE IF sr.StartPosition = TimeDeltaStart
                    /\ startTimeValid(b2, sr.Subject, sr.StartTime) = "panic"
            THEN Reply([b2 EXCEPT !.panicked = TRUE], NoResponse, NoSub)
            ELSE
            LET s == IF found # NoSub THEN found ELSE Len(b2.subs) + 1
                b3 == IF found # NoSub THEN b2
                      ELSE LET made == [b2 EXCEPT
                                   !.subs = Append(@, NewSubState(sr, inbox, inbox)),
                                   !.out = Append(@, <<>>),
                                   !.nextInbox = @ + 1]
                               stored == subStoreStore(made, sr.Subject, s)
                           IN  IF HasClient(stored, sr.ClientID)
                               THEN AddSub(stored, sr.ClientID, s)
                               ELSE stored
                b4 == [b3 EXCEPT !.subs[s].ackSub = b3.subs[s].ackInbox,
                                 !.ackSubs = @ \cup {b3.subs[s].ackInbox}]
            IN  Reply(b4, OK, s)

\* sendNewOnly
sendNewOnly(b, subject, s) ==
    [b EXCEPT !.subs[s].lastSent = b.channels[subject].msgs.last]

\* The sequence the switch on sr.StartPosition (1116-1127) hands to
\* sendMessagesFromSequence.
StartSeq(b, sr) ==
    LET ms == b.channels[sr.Subject].msgs
    IN  CASE sr.StartPosition = LastReceived -> ms.last
          [] sr.StartPosition = SequenceStart -> sr.StartSequence
          [] sr.StartPosition = TimeDeltaStart ->
                startSeqFromTime(
                    [first |-> ms.first,
                     stamps |-> [i \in 1..Cardinality(DOMAIN ms.msgs) |->
                                   TimestampOf(ms.first + i - 1)]],
                    sr.StartTime)
          [] OTHER -> ms.first

\* sendMessagesFromSequence up to its sub.Unlock(): sub.lastSent = startSeq - 1
setLastSent(b, s, startSeq) == [b EXCEPT !.subs[s].lastSent = Dec(startSeq)]

\* What sendMessagesFromSequence does after sub.Unlock().
sendFromLastSent(b, subject, s) ==
    IF b.subs[s].qstate # ""
    THEN sendAvailableMessagesToQueue(b, subject, b.subs[s].qstate)
    ELSE sendAvailableMessages(b, subject, s)

\* processClientPublish up to assignAndStore (539-569).
clientPublish(b, pm) ==
    IF pm.Guid = "" \/ ~isValidClient(b, pm.ClientID) \/ ~isValidSubject(pm.Subject)
    THEN Reply(b, ErrBadPubMsg, NoSub)
    ELSE LET b1 == LookupOrCreate(b, pm.Subject)
         IN  Reply([b1 EXCEPT !.channels[pm.Subject].msgs =
                        msgStoreStore(@, "", pm.Data, DefaultMsgStoreLimit)],
                   OK, NoSub)

\* The check of processClientPublish (546).
validPubMsg(b, pm) ==
    ~(pm.Guid = "" \/ ~isValidClient(b, pm.ClientID) \/ ~isValidSubject(pm.Subject))

\* ackPublisher: the PubAck published to the reply subject.
PubAck(pm) == [Guid |-> pm.Guid, Error |-> ""]

\* assignAndStore
assignAndStore(b, pm) ==
    [LookupOrCreate(b, pm.Subject) EXCEPT !.channels[pm.Subject].msgs =
        msgStoreStore(@, "", pm.Data, DefaultMsgStoreLimit)]

RECURSIVE sendToPlainSubs(_, _, _)
sendToPlainSubs(b, subject, psubs) ==
    IF psubs = <<>> THEN b
    ELSE sendToPlainSubs(sendAvailableMessages(b, subject, Head(psubs)),
                         subject, Tail(psubs))

RECURSIVE sendToQueueGroups(_, _, _)
sendToQueueGroups(b, subject, groups) ==
    IF groups = {} THEN b
    ELSE LET g == CHOOSE x \in groups : TRUE
         IN  sendToQueueGroups(sendAvailableMessagesToQueue(b, subject, g),
                               subject, groups \ {g})

\* A faulty processMsg: the queue groups are left out.
processMsgPlainOnly(b, subject) ==
    sendToPlainSubs(b, subject, b.channels[subject].psubs)

\* processMsg
processMsg(b, subject) ==
    LET cs == b.channels[subject]
    IN  sendToQueueGroups(sendToPlainSubs(b, subject, cs.psubs),
                          subject, DOMAIN cs.qsubs)

\* processAckMsg
processAckMsg(b, ackInbox, subject, seq) ==
    IF ~HasChannel(b, subject) THEN b
    ELSE LET s == LookupByAckInbox(b, subject, ackInbox)
         IN  IF s = NoSub THEN b ELSE processAck(b, subject, s, seq)

\* The loop of removeAllNonDurableSubscribers over client.subs.
RECURSIVE removeSubs(_, _)
removeSubs(b, sl) ==
    IF sl = <<>> THEN b
    ELSE LET s == Head(sl)
             sub == b.subs[s]
             b1 == [b EXCEPT !.subs[s] = [clearAckTimer(sub) EXCEPT !.clientID = ""]]
         IN  IF isDurable(sub) \/ ~HasChannel(b, sub.subject)
             THEN removeSubs(b1, Tail(sl))
             ELSE removeSubs(subStoreRemove(b1, sub.subject, s), Tail(sl))

\* removeAllNonDurableSubscribers
removeAllNonDurableSubscribers(b, clientID) ==
    IF ~HasClient(b, clientID) THEN b
    ELSE removeSubs(b, b.clients[clientID].subs)

\* closeClient
closeClient(b, clientID) ==
    Unregister(removeAllNonDurableSubscribers(b, clientID), clientID)

\* checkClientHealth (487-506).  The calls deferred run last in, first out:
\* when the counter exceeds maxFailed, closeClient (deferred at 500) runs
\* before client.Unlock (deferred at 493), and its first step,
\* removeAllNonDurableSubscribers, asks for client.RLock() (862) while the
\* callback itself holds the write lock: the callback blocks there, with the
\* timer reset (505), the client registered and the lock held.
checkClientHealth(b, clientID, answered, maxFailed) ==
    IF ~HasClient(b, clientID) THEN b
    ELSE IF answered THEN [b EXCEPT !.clients[clientID].fhb = 0]
    ELSE LET fhb == b.clients[clientID].fhb + 1
         IN  IF fhb > maxFailed
             THEN [b EXCEPT !.clients[clientID].fhb = fhb,
                            !.clients[clientID].locked = TRUE]
             ELSE [b EXCEPT !.clients[clientID].fhb = fhb]

\* processUnSubscribeRequest
unsubscribeRequest(b, req) ==
    IF ~HasChannel(b, req.Subject) THEN Reply(b, ErrInvalidSub, NoSub)
    ELSE LET s == LookupByAckInbox(b, req.Subject, req.Inbox)
         IN  IF s = NoSub THEN Reply(b, ErrInvalidSub, NoSub)
             ELSE LET b1 == subStoreRemove(b, req.Subject, s)
                  IN  Reply(IF HasClient(b1, req.ClientID)
                            THEN RemoveSub(b1, req.ClientID, s) ELSE b1,
                            OK, s)


(***************************************************************************)
(* The state.                                                              *)
(*   srv   the broker (the record b above)                                 *)
(*   pc    where the connect, publish and subscribe handlers stand; the    *)
(*         other handlers and the timer callbacks are single steps         *)
(*   last  the request refused last: its kind and the error it got         *)
(*   hist  what the properties below need to remember of the past          *)
(***************************************************************************)
VARIABLES srv, pc, last, hist

vars == <<srv, pc, last, hist>>

\* The state RunServer leaves (357-400).
InitBroker ==
    [channels |-> EmptyMap, subs |-> <<>>, clients |-> EmptyMap, out |-> <<>>,
     ackSubs |-> {}, nextInbox |-> 1, ncOk |-> TRUE, panicked |-> FALSE]

Idle == [step |-> "idle"]

InitPc == [conn |-> Idle, pub |-> Idle, sub |-> Idle]

InitHist ==
    [connOK |-> EmptyMap, connects |-> 0, detached |-> EmptyMap,
     reattached |-> EmptyMap, started |-> EmptyMap, acked |-> {}]

Init ==
    /\ srv = InitBroker
    /\ pc = InitPc
    /\ last = [kind |-> "none", resp |-> OK]
    /\ hist = InitHist

\* The redeliveries among the messages sent to a subscription.
NumRedelivered(o) == Cardinality({i \in 1..Len(o) : o[i].redelivered})

\* A queue group of the channel has members of different maxInFlight.
MixedGroup(b, c) ==
    \E g \in DOMAIN b.channels[c].qsubs :
        LET sl == b.channels[c].qsubs[g].subs
        IN  \E i, j \in 1..Len(sl) :
                b.subs[sl[i]].maxInFlight # b.subs[sl[j]].maxInFlight

\* The number of messages a channel may hold: one more than MaxMsgs when
\* it has a queue group of members of different maxInFlight, so that both
\* members can have a message in flight when the next one is stored.
MsgBound(b, c) == IF MixedGroup(b, c) THEN MaxMixedMsgs ELSE MaxMsgs

\* The bounds on what a step may leave.
Bounded(b) ==
    /\ Len(b.subs) <= MaxSubs
    /\ b.nextInbox <= MaxSubs + 2
    /\ \A s \in 1..Len(b.subs) :
          /\ NumRedelivered(b.out[s]) <= MaxRedeliver
          /\ b.subs[s].orphans <= MaxOrphans
    /\ \A c \in DOMAIN b.channels : b.channels[c].msgs.last <= MsgBound(b, c)

Running == ~srv.panicked

Count(m, k) == IF k \in DOMAIN m THEN m[k] ELSE 0

\* What last becomes when a request of this kind gets this response.
Refusal(l, kind, resp) == IF resp = OK THEN l ELSE [kind |-> kind, resp |-> resp]

----------------------------------------------------------------------------
(***************************************************************************)
(* connectCB: the lookup (441-458), then the registration and the          *)
(* response (460-484).                                                     *)
(***************************************************************************)
\* A faulty connectCB: no lookup of the clientID before the registration.
ConnectNoLookup(clientID) ==
    /\ Running
    /\ pc.conn.step = "idle"
    /\ clientID # ""
    /\ hist.connects < MaxConnects
    /\ pc' = [pc EXCEPT !.conn = [step |-> "register", clientID |-> clientID]]
    /\ UNCHANGED <<srv, hist, last>>

ConnectLookup(clientID) ==
    /\ Running
    /\ pc.conn.step = "idle"
    /\ IF clientID = ""
       THEN /\ last' = [kind |-> "connect", resp |-> ErrInvalidConnReq]
            /\ UNCHANGED pc
       ELSE IF HasClient(srv, clientID)
       THEN /\ last' = [kind |-> "connect", resp |-> ErrInvalidClient]
            /\ UNCHANGED pc
       ELSE /\ hist.connects < MaxConnects
            /\ pc' = [pc EXCEPT !.conn = [step |-> "register", clientID |-> clientID]]
            /\ UNCHANGED last
    /\ UNCHANGED <<srv, hist>>

ConnectRegister ==
    /\ Running
    /\ pc.conn.step = "register"
    /\ srv' = Register(srv, pc.conn.clientID, "hb")
    /\ hist' = [hist EXCEPT
                  !.connOK = MapPut(@, pc.conn.clientID, Count(@, pc.conn.clientID) + 1),
                  !.connects = @ + 1]
    /\ pc' = [pc EXCEPT !.conn = Idle]
    /\ UNCHANGED last

(***************************************************************************)
(* processCloseRequest for a request that unmarshals.                      *)
(***************************************************************************)
\* The durable subscriptions closeClient detaches.
Detaching(b, clientID) ==
    IF ~HasClient(b, clientID) THEN {}
    ELSE {s \in 1..Len(b.subs) :
            /\ \E i \in 1..Len(b.clients[clientID].subs) : b.clients[clientID].subs[i] = s
            /\ isDurable(b.subs[s])}

CloseRequest(clientID) ==
    /\ Running
    /\ srv' = closeClient(srv, clientID)
    /\ hist' = [hist EXCEPT
                  !.connOK = MapPut(@, clientID, 0),
                  !.detached = [s \in DOMAIN @ \cup Detaching(srv, clientID) |->
                                   IF s \in Detaching(srv, clientID)
                                   THEN [lastSent |-> srv.subs[s].lastSent,
                                         pending |-> DOMAIN srv.subs[s].acksPending]
                                   ELSE @[s]],
                  !.reattached = [s \in DOMAIN @ \ Detaching(srv, clientID) |-> @[s]]]
    /\ UNCHANGED <<pc, last>>

\* processCloseRequest for a request that does not unmarshal (523-529): the
\* error is logged, the error response is published only if its Marshal
\* fails, and the handler goes on to closeClient with the clientID that
\* Unmarshal decoded before it failed, and to the response without error.
CloseRequestMalformed(decoded) ==
    /\ Running
    /\ srv' = closeClient(srv, decoded)
    /\ hist' = [hist EXCEPT
                  !.connOK = IF decoded \in DOMAIN @ THEN MapPut(@, decoded, 0) ELSE @,
                  !.detached = [s \in DOMAIN @ \cup Detaching(srv, decoded) |->
                                   IF s \in Detaching(srv, decoded)
                                   THEN [lastSent |-> srv.subs[s].lastSent,
                                         pending |-> DOMAIN srv.subs[s].acksPending]
                                   ELSE @[s]],
                  !.reattached = [s \in DOMAIN @ \ Detaching(srv, decoded) |-> @[s]]]
    /\ UNCHANGED <<pc, last>>

(***************************************************************************)
(* The callback of the heartbeat timer of a client (480): the request to   *)
(* the heartbeat inbox is answered in time or it is not.  The timer is     *)
(* reset at the end of the callback only, so there is one callback per     *)
(* client at a time.                                                       *)
(***************************************************************************)
HeartbeatTimerFires(clientID, answered) ==
    /\ Running
    /\ HasClient(srv, clientID)
    /\ ~ClientLocked(srv, clientID)
    /\ srv' = checkClientHealth(srv, clientID, answered, ScaledMaxFailedHeartBeats)
    /\ UNCHANGED <<pc, last, hist>>

(***************************************************************************)
(* processClientPublish: the validation, the PubAck and the store, then    *)
(* processMsg.                                                             *)
(***************************************************************************)
Publish(pm) ==
    /\ Running
    /\ pc.pub.step = "idle"
    /\ LET r == clientPublish(srv, pm)
       IN  /\ Bounded(r.b)
           /\ srv' = r.b
           /\ last' = Refusal(last, "publish", r.resp)
           /\ pc' = IF r.resp = OK
                    THEN [pc EXCEPT !.pub = [step |-> "fanout", subject |-> pm.Subject]]
                    ELSE pc
    /\ UNCHANGED hist

\* processClientPublish step by step: the validation and the PubAck
\* (539-562), then assignAndStore (569); processMsg is PublishFanout.
PublishAck(pm) ==
    /\ Running
    /\ pc.pub.step = "idle"
    /\ IF validPubMsg(srv, pm)
       THEN /\ pc' = [pc EXCEPT !.pub = [step |-> "store", pm |-> pm, ack |-> PubAck(pm)]]
            /\ UNCHANGED last
       ELSE /\ last' = Refusal(last, "publish", ErrBadPubMsg)
            /\ UNCHANGED pc
    /\ UNCHANGED <<srv, hist>>

PublishStore ==
    /\ Running
    /\ pc.pub.step = "store"
    /\ LET b2 == assignAndStore(srv, pc.pub.pm)
       IN  /\ Bounded(b2)
           /\ srv' = b2
    /\ pc' = [pc EXCEPT !.pub = [step |-> "fanout", subject |-> pc.pub.pm.Subject]]
    /\ UNCHANGED <<last, hist>>

PublishFanout ==
    /\ Running
    /\ pc.pub.step = "fanout"
    /\ LET b2 == processMsg(srv, pc.pub.subject)
       IN  /\ Bounded(b2)
           /\ srv' = b2
    /\ pc' = [pc EXCEPT !.pub = Idle]
    /\ UNCHANGED <<last, hist>>

(***************************************************************************)
(* processSubscriptionRequest: up to the response (980-1105); then, for a  *)
(* durable, performDurableRedelivery and sendAvailableMessages (1108-1113) *)
(* and otherwise the start position: the assignment of sub.lastSent and    *)
(* the sends that follow it (1116-1127).                                   *)
(***************************************************************************)
\* What is remembered of an accepted request for a new subscription with
\* start position NewOnly or SequenceStart: the position and the sequence
\* asked for, the last sequence of the channel when the request is handled,
\* and whether the subscription is plain or the first member ever of its
\* queue group.
Started(b, sr) ==
    [pos |-> sr.StartPosition,
     seq |-> sr.StartSequence,
     last |-> IF HasChannel(b, sr.Subject) THEN b.channels[sr.Subject].msgs.last
              ELSE 0,
     fresh |-> \/ sr.QGroup = ""
               \/ ~HasChannel(b, sr.Subject)
               \/ sr.QGroup \notin DOMAIN b.channels[sr.Subject].qsubs]

Subscribe(sr) ==
    /\ Running
    /\ pc.sub.step = "idle"
    /\ LET r == subscriptionRequest(srv, sr)
           again == r.resp = OK /\ r.s <= Len(srv.subs)
       IN  /\ Bounded(r.b)
           /\ srv' = r.b
           /\ last' = Refusal(last, "subscribe", r.resp)
           /\ pc' = IF r.resp = OK
                    THEN [pc EXCEPT !.sub = [step |-> "init", s |-> r.s, sr |-> sr]]
                    ELSE pc
           /\ hist' = IF again
                      THEN [hist EXCEPT !.reattached =
                              MapPut(@, r.s,
                                     [lastSent |-> srv.subs[r.s].lastSent,
                                      sent |-> Len(srv.out[r.s]),
                                      known |-> r.s \in DOMAIN hist.detached])]
                      ELSE IF r.resp = OK /\ sr.StartPosition \in {NewOnly, SequenceStart}
                      THEN [hist EXCEPT !.started = MapPut(@, r.s, Started(srv, sr))]
                      ELSE hist

SubscribeInit ==
    /\ Running
    /\ pc.sub.step = "init"
    /\ LET s == pc.sub.s
           sr == pc.sub.sr
           b2 == IF sr.DurableName # "" THEN performDurableRedelivery(srv, s)
                 ELSE IF sr.StartPosition = NewOnly THEN sendNewOnly(srv, sr.Subject, s)
                 ELSE setLastSent(srv, s, StartSeq(srv, sr))
       IN  /\ Bounded(b2)
           /\ srv' = b2
           /\ pc' = IF sr.DurableName = "" /\ sr.StartPosition = NewOnly
                    THEN [pc EXCEPT !.sub = Idle]
                    ELSE [pc EXCEPT !.sub.step = "send"]
    /\ UNCHANGED <<last, hist>>

SubscribeSend ==
    /\ Running
    /\ pc.sub.step = "send"
    /\ LET s == pc.sub.s
           sr == pc.sub.sr
           b2 == IF sr.DurableName # "" THEN sendAvailableMessages(srv, sr.Subject, s)
                 ELSE sendFromLastSent(srv, sr.Subject, s)
       IN  /\ Bounded(b2)
           /\ srv' = b2
    /\ pc' = [pc EXCEPT !.sub = Idle]
    /\ UNCHANGED <<last, hist>>

(***************************************************************************)
(* processUnSubscribeRequest for a request that unmarshals.                *)
(***************************************************************************)
Unsubscribe(req) ==
    /\ Running
    /\ LET r == unsubscribeRequest(srv, req)
       IN  /\ srv' = r.b
           /\ last' = Refusal(last, "unsubscribe", r.resp)
    /\ UNCHANGED <<pc, hist>>

(***************************************************************************)
(* processAckMsg: the callback of the NATS subscription on an ack inbox.   *)
(***************************************************************************)
Ack(ackInbox, subject, seq) ==
    /\ Running
    /\ ackInbox \in srv.ackSubs
    /\ LET b2 == processAckMsg(srv, ackInbox, subject, seq)
       IN  /\ Bounded(b2)
           /\ srv' = b2
    /\ UNCHANGED <<pc, last, hist>>

\* processAckMsg, with a note of the acks that found their message in
\* flight: the queue group of the subscription (or "") and the sequence.
AckNoted(ackInbox, subject, seq) ==
    /\ Running
    /\ ackInbox \in srv.ackSubs
    /\ LET b2 == processAckMsg(srv, ackInbox, subject, seq)
       IN  /\ Bounded(b2)
           /\ srv' = b2
    /\ UNCHANGED <<pc, last>>
    /\ LET s == IF HasChannel(srv, subject)
                THEN LookupByAckInbox(srv, subject, ackInbox) ELSE NoSub
       IN  hist' = IF s # NoSub /\ seq \in DOMAIN srv.subs[s].acksPending
                   THEN [hist EXCEPT !.acked = @ \cup {<<srv.subs[s].qgroup, seq>>}]
                   ELSE hist

\* The NATS connection of the server starts or stops to refuse publishes
\* (nc.Publish returns an error: the connection is closed or reconnecting
\* with a full buffer).
TransportChanges ==
    /\ Running
    /\ srv' = [srv EXCEPT !.ncOk = ~@]
    /\ UNCHANGED <<pc, last, hist>>

(***************************************************************************)
(* The callback of an ack timer (801-803): of the timer sub.ackTimer       *)
(* points to, or of one it no longer points to.                            *)
(***************************************************************************)
AckTimerFires(s, expired) ==
    /\ Running
    /\ srv.subs[s].ackTimer = "armed"
    /\ LET b1 == [srv EXCEPT !.subs[s].ackTimer = "fired"]
           b2 == performAckExpirationRedelivery(b1, s, expired)
       IN  /\ Bounded(b2)
           /\ srv' = b2
    /\ UNCHANGED <<pc, last, hist>>

OrphanTimerFires(s, expired) ==
    /\ Running
    /\ srv.subs[s].orphans > 0
    /\ LET b1 == [srv EXCEPT !.subs[s].orphans = @ - 1]
           b2 == performAckExpirationRedelivery(b1, s, expired)
       IN  /\ Bounded(b2)
           /\ srv' = b2
    /\ UNCHANGED <<pc, last, hist>>

----------------------------------------------------------------------------
(***************************************************************************)
(* The requests of the clients.                                            *)
(***************************************************************************)
SubReq(c, subject, g, d, mif, wait, pos, seq) ==
    [ClientID |-> c, Subject |-> subject, QGroup |-> g, DurableName |-> d,
     MaxInFlight |-> mif, AckWaitInSecs |-> wait, StartPosition |-> pos,
     StartSequence |-> seq]

PubMsg(guid, c, subject) ==
    [Guid |-> guid, ClientID |-> c, Subject |-> subject, Data |-> "d"]

UnsubReq(c, subject, inbox) == [ClientID |-> c, Subject |-> subject, Inbox |-> inbox]

\* The subscriptions, and how many of the pending messages of one have
\* expired when a timer callback runs.
Subs == 1..Len(srv.subs)
Expired(s) == 0..NumPending(srv, s)

----------------------------------------------------------------------------
(***************************************************************************)
(* SpecLog: the message log of one channel on its own, under Store with    *)
(* the scaled limit.                                                       *)
(***************************************************************************)
InitLog ==
    /\ srv = LookupOrCreate(InitBroker, Foo)
    /\ pc = InitPc
    /\ last = [kind |-> "none", resp |-> OK]
    /\ hist = InitHist

LogStore(reply, data) ==
    /\ srv.channels[Foo].msgs.last < MaxLogStores
    /\ srv' = [srv EXCEPT !.channels[Foo].msgs =
                            msgStoreStore(@, reply, data, ScaledStoreLimit)]
    /\ UNCHANGED <<pc, last, hist>>

NextLog == \E reply \in {"", "r"}, data \in {"d", "e"} : LogStore(reply, data)

SpecLog == InitLog /\ [][NextLog]_vars

\* C1: in every state of a channel's log, every seq with first <= seq <= last
\* has a stored message, Lookup(seq) returns a message whose Sequence is seq,
\* and Lookup of a seq below first or above last returns nil.
LogDense ==
    \A c \in DOMAIN srv.channels :
        LET ms == srv.channels[c].msgs
        IN  \A seq \in 0..(UintMod - 1) :
                IF ms.first <= seq /\ seq <= ms.last
                THEN /\ seq \in DOMAIN ms.msgs
                     /\ msgStoreLookup(ms, seq) # NilMsg
                     /\ msgStoreLookup(ms, seq).Sequence = seq
                ELSE msgStoreLookup(ms, seq) = NilMsg

\* The log after evictions: first has moved and the log holds messages.
LogEvicted ==
    \E c \in DOMAIN srv.channels :
        LET ms == srv.channels[c].msgs
        IN  ms.first > 2 /\ ms.last > ms.first

----------------------------------------------------------------------------
(***************************************************************************)
(* Spec: the delivery engine.  One client; plain subscriptions and the     *)
(* members of one queue group on one channel; publishes, acks and ack      *)
(* timers.  The client of Spec and of SpecDurable sends the requests the   *)
(* broker accepts; SpecRequests has the others.                            *)
(***************************************************************************)
PlainFirst == SubReq("c1", Foo, "", "", 2, 1, First, 1)
QueueFirst == SubReq("c1", Foo, "g", "", 1, 1, First, 1)
DurableFirst == SubReq("c1", Foo, "", "dur", 1, 1, First, 1)
NegativeMaxInFlight == SubReq("c1", Foo, "", "", -1, 1, First, 1)

ValidPub == PubMsg("guid", "c1", Foo)
PlainFirstOne == SubReq("c1", Foo, "", "", 1, 1, First, 1)

\* The request is one the broker answers without an error.
Accepted(sr) == subscriptionRequest(srv, sr).resp = OK

Next ==
    \/ ~HasClient(srv, "c1") /\ ConnectLookup("c1")
    \/ ConnectRegister
    \/ HasClient(srv, "c1") /\ Publish(ValidPub)
    \/ PublishFanout
    \/ \E sr \in {PlainFirst, QueueFirst} : Accepted(sr) /\ Subscribe(sr)
    \/ SubscribeInit
    \/ SubscribeSend
    \/ \E i \in srv.ackSubs, seq \in 1..MaxMsgs : Ack(i, Foo, seq)
    \/ \E s \in Subs : \E k \in Expired(s) : AckTimerFires(s, k)
    \/ \E s \in Subs : \E k \in Expired(s) : OrphanTimerFires(s, k)

Spec == Init /\ [][Next]_vars

(***************************************************************************)
(* SpecDurable: a durable subscription, the members of a queue group and   *)
(* a subscription with a negative MaxInFlight, of a client that connects,  *)
(* closes and connects again.                                              *)
(***************************************************************************)
NextDurable ==
    \/ ~HasClient(srv, "c1") /\ ConnectLookup("c1")
    \/ ConnectRegister
    \/ HasClient(srv, "c1") /\ CloseRequest("c1")
    \/ HasClient(srv, "c1") /\ Publish(ValidPub)
    \/ PublishFanout
    \/ \E sr \in {DurableFirst, QueueFirst, NegativeMaxInFlight} :
          Accepted(sr) /\ Subscribe(sr)
    \/ SubscribeInit
    \/ SubscribeSend
    \/ \E i \in srv.ackSubs, seq \in 1..MaxMsgs : Ack(i, Foo, seq)
    \/ \E s \in Subs : \E k \in Expired(s) : AckTimerFires(s, k)
    \/ \E s \in Subs : \E k \in Expired(s) : OrphanTimerFires(s, k)

SpecDurable == Init /\ [][NextDurable]_vars

(***************************************************************************)
(* SpecRequests: the validation of the requests.                           *)
(***************************************************************************)
RefusedSubRequests ==
    {SubReq("c1", FooStar, "", "", 1, 1, First, 1),
     SubReq("c1", FooGt, "g", "", 1, 1, NewOnly, 1),
     SubReq("c1", BStarR, "", "", 1, 0, First, 1),
     SubReq("c1", Foo, "", "", 1, 0, First, 1),
     SubReq("", Foo, "", "", 1, 1, First, 1),
     SubReq("c1", Foo, "g", "dur", 1, 1, First, 1)}

RefusedPubMsgs ==
    {PubMsg("guid", "c1", FooStar), PubMsg("guid", "c1", BStarR),
     PubMsg("guid", "c1", FooGt), PubMsg("", "c1", Foo)}

\* Unsubscribe requests for a channel and for an inbox the broker never had.
RefusedUnsubRequests == {UnsubReq("c1", FooStar, 1), UnsubReq("c1", Foo, 0)}

NextRequests ==
    \/ \E c \in {"c1", ""} : ConnectLookup(c)
    \/ ConnectRegister
    \/ CloseRequest("c1")
    \/ \E c \in {"c1", ""} : CloseRequestMalformed(c)
    \/ \E req \in RefusedUnsubRequests : Unsubscribe(req)
    \/ \E pm \in {ValidPub} \cup RefusedPubMsgs : Publish(pm)
    \/ PublishFanout
    \/ \E sr \in {PlainFirst, DurableFirst} \cup RefusedSubRequests : Subscribe(sr)
    \/ SubscribeInit
    \/ SubscribeSend

SpecRequests == Init /\ [][NextRequests]_vars

(***************************************************************************)
(* SpecLeave: subscriptions that leave.  A client that connects, creates a *)
(* durable subscription and members of a queue group, unsubscribes, closes *)
(* and connects again, with publishes, acks and ack timers in between.     *)
(***************************************************************************)
\* The Unsubscribe requests of the client for the ack inboxes it was given.
UnsubRequests ==
    {UnsubReq("c1", Foo, i) : i \in IF HasChannel(srv, Foo)
                                    THEN DOMAIN srv.channels[Foo].acks ELSE {}}

NextLeave ==
    \/ ~HasClient(srv, "c1") /\ ConnectLookup("c1")
    \/ ConnectRegister
    \/ HasClient(srv, "c1") /\ CloseRequest("c1")
    \/ HasClient(srv, "c1") /\ Publish(ValidPub)
    \/ PublishFanout
    \/ \E sr \in {DurableFirst, QueueFirst} :
          HasClient(srv, "c1") /\ Accepted(sr) /\ Subscribe(sr)
    \/ SubscribeInit
    \/ SubscribeSend
    \/ \E req \in UnsubRequests : HasClient(srv, "c1") /\ Unsubscribe(req)
    \/ \E i \in srv.ackSubs, seq \in 1..MaxMsgs : Ack(i, Foo, seq)
    \/ \E s \in Subs : \E k \in Expired(s) : AckTimerFires(s, k)
    \/ \E s \in Subs : \E k \in Expired(s) : OrphanTimerFires(s, k)

SpecLeave == Init /\ [][NextLeave]_vars

(***************************************************************************)
(* SpecQueue: one queue group.  Members join with each of the start        *)
(* positions and leave by Unsubscribe and by the Close of their client,    *)
(* with publishes, acks and ack timers in between.                         *)
(***************************************************************************)
QueueNewOnly == SubReq("c1", Foo, "g", "", 1, 1, NewOnly, 1)
QueueLastReceived == SubReq("c1", Foo, "g", "", 1, 1, LastReceived, 1)
QueueSequenceStart == SubReq("c1", Foo, "g", "", 1, 1, SequenceStart, 2)

NextQueue ==
    \/ ~HasClient(srv, "c1") /\ ConnectLookup("c1")
    \/ ConnectRegister
    \/ HasClient(srv, "c1") /\ CloseRequest("c1")
    \/ HasClient(srv, "c1") /\ Publish(ValidPub)
    \/ PublishFanout
    \/ \E sr \in {QueueFirst, QueueNewOnly, QueueLastReceived, QueueSequenceStart} :
          HasClient(srv, "c1") /\ Accepted(sr) /\ Subscribe(sr)
    \/ SubscribeInit
    \/ SubscribeSend
    \/ \E req \in UnsubRequests : HasClient(srv, "c1") /\ Unsubscribe(req)
    \/ \E i \in srv.ackSubs, seq \in 1..MaxMsgs : Ack(i, Foo, seq)
    \/ \E s \in Subs : \E k \in Expired(s) : AckTimerFires(s, k)

SpecQueue == Init /\ [][NextQueue]_vars

(***************************************************************************)
(* SpecHeartbeat: two clients, a queue group they share and a durable      *)
(* subscription of the first, with heartbeats that are answered or not.    *)
(* A handler that needs the lock of a client whose heartbeat callback      *)
(* holds it for ever does not take its step.                               *)
(***************************************************************************)
Clients == {"c1", "c2"}
QueueFirstOther == SubReq("c2", Foo, "g", "", 1, 1, First, 1)

\* The client the subscription belongs to holds no lock for ever.
OwnerFree(s) == ~ClientLocked(srv, srv.subs[s].clientID)

NextHeartbeat ==
    \/ \E c \in Clients : ~HasClient(srv, c) /\ ConnectLookup(c)
    \/ ConnectRegister
    \/ \E c \in Clients : HasClient(srv, c) /\ ~ClientLocked(srv, c) /\ CloseRequest(c)
    \/ \E c \in Clients, answered \in BOOLEAN : HeartbeatTimerFires(c, answered)
    \/ HasClient(srv, "c1") /\ Publish(ValidPub)
    \/ PublishFanout
    \/ \E sr \in {DurableFirst, QueueFirst, QueueFirstOther} :
          /\ HasClient(srv, sr.ClientID)
          /\ ~ClientLocked(srv, sr.ClientID)
          /\ Accepted(sr)
          /\ Subscribe(sr)
    \/ SubscribeInit
    \/ SubscribeSend
    \/ \E i \in srv.ackSubs, seq \in 1..MaxMsgs : Ack(i, Foo, seq)
    \/ \E s \in Subs : \E k \in Expired(s) : OwnerFree(s) /\ AckTimerFires(s, k)

SpecHeartbeat == Init /\ [][NextHeartbeat]_vars

(***************************************************************************)
(* SpecStart: subscriptions that start at NewOnly and at a sequence:       *)
(* plain, durable and in a queue group, with publishes before, during and  *)
(* after the handling of their requests.                                   *)
(***************************************************************************)
PlainNewOnly == SubReq("c1", Foo, "", "", 1, 1, NewOnly, 1)
PlainSequenceStart == SubReq("c1", Foo, "", "", 1, 1, SequenceStart, 2)
DurableSequenceStart == SubReq("c1", Foo, "", "dur", 1, 1, SequenceStart, 2)

StartRequests ==
    {PlainNewOnly, QueueNewOnly, PlainSequenceStart, QueueSequenceStart,
     DurableSequenceStart}

NextStart ==
    \/ ~HasClient(srv, "c1") /\ ConnectLookup("c1")
    \/ ConnectRegister
    \/ HasClient(srv, "c1") /\ Publish(ValidPub)
    \/ PublishFanout
    \/ \E sr \in StartRequests : HasClient(srv, "c1") /\ Subscribe(sr)
    \/ SubscribeInit
    \/ SubscribeSend
    \/ \E i \in srv.ackSubs, seq \in 1..MaxMsgs : Ack(i, Foo, seq)
    \/ \E s \in Subs : \E k \in Expired(s) : AckTimerFires(s, k)
    \/ \E s \in Subs : \E k \in Expired(s) : OrphanTimerFires(s, k)

SpecStart == Init /\ [][NextStart]_vars

(***************************************************************************)
(* SpecPublish: the publish handler step by step, with a plain             *)
(* subscription and the members of a queue group.                          *)
(***************************************************************************)
NextPublish ==
    \/ ~HasClient(srv, "c1") /\ ConnectLookup("c1")
    \/ ConnectRegister
    \/ \E pm \in {ValidPub} \cup RefusedPubMsgs : PublishAck(pm)
    \/ PublishStore
    \/ PublishFanout
    \/ \E sr \in {PlainFirstOne, QueueFirst} :
          HasClient(srv, "c1") /\ Accepted(sr) /\ Subscribe(sr)
    \/ SubscribeInit
    \/ SubscribeSend
    \/ \E i \in srv.ackSubs, seq \in 1..MaxMsgs : Ack(i, Foo, seq)
    \/ \E s \in Subs : \E k \in Expired(s) : AckTimerFires(s, k)

SpecPublish == Init /\ [][NextPublish]_vars

(***************************************************************************)
(* SpecTransport: a plain subscription and the members of a queue group,   *)
(* with a NATS connection that refuses publishes at times.                 *)
(***************************************************************************)
NextTransport ==
    \/ ~HasClient(srv, "c1") /\ ConnectLookup("c1")
    \/ ConnectRegister
    \/ HasClient(srv, "c1") /\ Publish(ValidPub)
    \/ PublishFanout
    \/ \E sr \in {PlainFirstOne, QueueFirst} :
          HasClient(srv, "c1") /\ Accepted(sr) /\ Subscribe(sr)
    \/ SubscribeInit
    \/ SubscribeSend
    \/ \E i \in srv.ackSubs, seq \in 1..MaxMsgs : AckNoted(i, Foo, seq)
    \/ \E s \in Subs : \E k \in Expired(s) : AckTimerFires(s, k)
    \/ TransportChanges

SpecTransport == Init /\ [][NextTransport]_vars

(***************************************************************************)
(* SpecRedelivery: one plain subscription or the members of one queue      *)
(* group, with room for two messages in flight, and an ack timer whose     *)
(* callback finds any number of them expired and may redeliver a batch of  *)
(* MaxBatch messages.                                                      *)
(***************************************************************************)
QueueFirstTwo == SubReq("c1", Foo, "g", "", 2, 1, First, 1)

\* The callback of the ack timer, as in AckTimerFires, with room for
\* MaxBatch redeliveries to a subscription.
AckTimerFiresBatch(s, expired) ==
    /\ Running
    /\ srv.subs[s].ackTimer = "armed"
    /\ LET b1 == [srv EXCEPT !.subs[s].ackTimer = "fired"]
           b2 == performAckExpirationRedelivery(b1, s, expired)
       IN  /\ \A o \in 1..Len(b2.subs) :
                 /\ NumRedelivered(b2.out[o]) <= MaxBatch
                 /\ b2.subs[o].orphans <= MaxOrphans
           /\ srv' = b2
    /\ UNCHANGED <<pc, last, hist>>

NextRedelivery ==
    \/ ~HasClient(srv, "c1") /\ ConnectLookup("c1")
    \/ ConnectRegister
    \/ HasClient(srv, "c1") /\ Publish(ValidPub)
    \/ PublishFanout
    \/ \E sr \in {PlainFirst, QueueFirstTwo} :
          /\ HasClient(srv, "c1") /\ Accepted(sr)
          /\ \A s \in Subs : srv.subs[s].qgroup = sr.QGroup
          /\ Subscribe(sr)
    \/ SubscribeInit
    \/ SubscribeSend
    \/ \E i \in srv.ackSubs, seq \in 1..MaxMsgs : Ack(i, Foo, seq)
    \/ \E s \in Subs : \E k \in Expired(s) : AckTimerFiresBatch(s, k)

SpecRedelivery == Init /\ [][NextRedelivery]_vars

(***************************************************************************)
(* SpecFair: one plain subscription with start position First, of a client *)
(* that stays connected and acknowledges what it receives.  A handler that *)
(* has started runs to its end, and the client sends the ack of a message  *)
(* it holds: weak fairness of the steps of the handlers and of the acks.   *)
(***************************************************************************)
\* The client acknowledges a message it holds.
ClientAck ==
    \E s \in Subs :
        \E seq \in DOMAIN srv.subs[s].acksPending :
            Ack(srv.subs[s].ackInbox, Foo, seq)

NextFair ==
    \/ ~HasClient(srv, "c1") /\ ConnectLookup("c1")
    \/ ConnectRegister
    \/ HasClient(srv, "c1") /\ Publish(ValidPub)
    \/ PublishFanout
    \/ srv.subs = <<>> /\ Subscribe(PlainFirstOne)
    \/ SubscribeInit
    \/ SubscribeSend
    \/ ClientAck
    \/ \E s \in Subs : \E k \in Expired(s) : AckTimerFires(s, k)

Fairness ==
    /\ WF_vars(PublishFanout)
    /\ WF_vars(SubscribeInit)
    /\ WF_vars(SubscribeSend)
    /\ WF_vars(ClientAck)

SpecFair == Init /\ [][NextFair]_vars /\ Fairness

(***************************************************************************)
(* SpecResume: as SpecFair, the one subscription being plain or the only   *)
(* member of a queue group, with maxInFlight 1.                            *)
(***************************************************************************)
NextResume ==
    \/ ~HasClient(srv, "c1") /\ ConnectLookup("c1")
    \/ ConnectRegister
    \/ HasClient(srv, "c1") /\ Publish(ValidPub)
    \/ PublishFanout
    \/ \E sr \in {PlainFirstOne, QueueFirst} : srv.subs = <<>> /\ Subscribe(sr)
    \/ SubscribeInit
    \/ SubscribeSend
    \/ ClientAck
    \/ \E s \in Subs : \E k \in Expired(s) : AckTimerFires(s, k)

SpecResume == Init /\ [][NextResume]_vars /\ Fairness

----------------------------------------------------------------------------
(***************************************************************************)
(* Properties of the delivery engine.                                      *)
(***************************************************************************)
\* C2: for every subscription, the sequence numbers of the non-redelivered
\* messages sent to its inbox are strictly increasing.
NonRedeliveredIncreasing ==
    \A s \in Subs :
        \A i, j \in 1..Len(srv.out[s]) :
            (i < j /\ ~srv.out[s][i].redelivered /\ ~srv.out[s][j].redelivered)
                => srv.out[s][i].seq < srv.out[s][j].seq

\* What an ack may change: the in-flight sets, lastSent and the stalled
\* flags of the subscriptions, lastSent and the stalled flags of the queue
\* groups, and the messages sent.
AckView(b) ==
    [subs |-> [s \in 1..Len(b.subs) |->
                 [pending |-> DOMAIN b.subs[s].acksPending,
                  lastSent |-> b.subs[s].lastSent,
                  stalled |-> b.subs[s].stalled]],
     groups |-> [c \in DOMAIN b.channels |->
                   [g \in DOMAIN b.channels[c].qsubs |->
                      [lastSent |-> b.channels[c].qsubs[g].lastSent,
                       stalled |-> b.channels[c].qsubs[g].stalled]]],
     out |-> b.out]

\* C5: processing the ack of a sequence on an ack inbox twice in a row
\* leaves what AckView shows as processing it once does, whether the
\* sequence is in flight or not.
AckIdempotent ==
    \A i \in srv.ackSubs, seq \in 0..(MaxMsgs + 1) :
        LET once == processAckMsg(srv, i, Foo, seq)
            twice == processAckMsg(once, i, Foo, seq)
        IN  AckView(twice) = AckView(once)

\* C5, the case of a client that acknowledges what it received: with no
\* request handler in progress, processing twice in a row the ack of a
\* sequence that was sent to the subscription leaves what AckView shows as
\* processing it once does.
AckOfSentIdempotent ==
    pc = InitPc =>
        \A s \in Subs : \A k \in 1..Len(srv.out[s]) :
            LET seq == srv.out[s][k].seq
                once == processAckMsg(srv, srv.subs[s].ackInbox, Foo, seq)
                twice == processAckMsg(once, srv.subs[s].ackInbox, Foo, seq)
            IN  AckView(twice) = AckView(once)

\* The first of the members of sl with the least number of pending acks.
FirstLeastLoaded(b, sl) ==
    sl[Min({i \in 1..Len(sl) :
              \A j \in 1..Len(sl) : NumPending(b, sl[i]) <= NumPending(b, sl[j])})]

InFlightWithinMax ==
    \A s \in Subs :
        srv.subs[s].maxInFlight >= 0 => NumPending(srv, s) <= srv.subs[s].maxInFlight

\* C4 as stated: every subscription has at most maxInFlight entries in
\* acksPending.
InFlightAtMostMax ==
    \A s \in Subs : NumPending(srv, s) <= srv.subs[s].maxInFlight

\* A queue member at its limit, holding a message that was first sent to
\* another member of its group and redelivered to this one.
InFlightAtLimit ==
    \E s, o \in Subs :
        /\ s # o
        /\ srv.subs[s].qstate # "" /\ srv.subs[o].qstate = srv.subs[s].qstate
        /\ srv.subs[s].maxInFlight >= 1
        /\ NumPending(srv, s) = srv.subs[s].maxInFlight
        /\ \E seq \in DOMAIN srv.subs[s].acksPending :
              /\ srv.subs[s].acksPending[seq].Redelivered
              /\ \E k \in 1..Len(srv.out[o]) :
                    srv.out[o][k].seq = seq /\ ~srv.out[o][k].redelivered

\* C6: a durable subscription that is re-attached after the close of its
\* client has the lastSent it had when the client was closed.
DurableKeepsLastSent ==
    \A s \in DOMAIN hist.reattached :
        hist.reattached[s].known =>
            hist.reattached[s].lastSent = hist.detached[s].lastSent

----------------------------------------------------------------------------
(***************************************************************************)
(* Properties of the request handlers.                                     *)
(***************************************************************************)
\* The subject has the character * or > somewhere.
HasWildcard(subject) == \E i \in 1..Len(subject) : subject[i] \in {"*", ">"}

\* A request for a durable member of a queue group.
IsDurableQueue(sr) == sr.DurableName # "" /\ sr.QGroup # ""

\* C8: a durable queue group exists and keeps its lastSent for the next
\* member.  Its first step: a Subscribe request of a registered client that
\* names a durable name and a queue group on a valid subject is accepted.
DurableQueueAccepted ==
    [][\A sr \in RefusedSubRequests :
          (IsDurableQueue(sr) /\ HasClient(srv, sr.ClientID) /\ Subscribe(sr))
              => subscriptionRequest(srv, sr).resp = OK]_vars

\* C9: a Subscribe request whose subject has a wildcard is refused with
\* ErrInvalidSubject when its AckWait is at least one second and with
\* ErrInvalidAckWait otherwise, a Publish whose subject has a wildcard is
\* refused with ErrBadPubMsg, and the broker is left as it was: no message
\* stored, no subscription and no channel created.
WildcardRefused ==
    [][/\ \A sr \in RefusedSubRequests :
             (HasWildcard(sr.Subject) /\ Subscribe(sr))
                 => /\ last' = [kind |-> "subscribe",
                                resp |-> IF sr.AckWaitInSecs >= 1
                                         THEN ErrInvalidSubject
                                         ELSE ErrInvalidAckWait]
                    /\ srv' = srv
       /\ \A pm \in RefusedPubMsgs :
             (HasWildcard(pm.Subject) /\ Publish(pm))
                 => /\ last' = [kind |-> "publish", resp |-> ErrBadPubMsg]
                    /\ srv' = srv]_vars

\* C9 as stated: every Subscribe and every Publish whose subject has a
\* wildcard is answered with ErrInvalidSubject and leaves the broker as it
\* was.
WildcardInvalidSubject ==
    [][/\ \A sr \in RefusedSubRequests :
             (HasWildcard(sr.Subject) /\ Subscribe(sr))
                 => last'.resp = ErrInvalidSubject /\ srv' = srv
       /\ \A pm \in RefusedPubMsgs :
             (HasWildcard(pm.Subject) /\ Publish(pm))
                 => last'.resp = ErrInvalidSubject /\ srv' = srv]_vars

\* A Subscribe with a wildcard was refused with ErrInvalidSubject after
\* messages were stored and a subscription created on another subject: no
\* channel has a wildcard in its subject.
WildcardSubscribeRefused ==
    /\ last = [kind |-> "subscribe", resp |-> ErrInvalidSubject]
    /\ Len(srv.subs) = 1
    /\ \A c \in DOMAIN srv.channels :
          ~HasWildcard(c) /\ srv.channels[c].msgs.last = 1

ErrorLeavesState ==
    [][/\ \A sr \in {PlainFirst, DurableFirst} \cup RefusedSubRequests :
             (Subscribe(sr) /\ subscriptionRequest(srv, sr).resp # OK) => srv' = srv
       /\ \A pm \in RefusedPubMsgs :
             (Publish(pm) /\ clientPublish(srv, pm).resp # OK) => srv' = srv
       /\ \A req \in RefusedUnsubRequests :
             (Unsubscribe(req) /\ unsubscribeRequest(srv, req).resp # OK) => srv' = srv
       /\ \A c \in {"c1", ""} : CloseRequestMalformed(c) => srv' = srv]_vars

----------------------------------------------------------------------------
(***************************************************************************)
(* Properties of the subscriptions that leave.                             *)
(***************************************************************************)
\* s is in the plain list or in the member list of a queue group of a channel.
InSubscriptionSet(b, s) ==
    \E c \in DOMAIN b.channels :
        \/ \E i \in 1..Len(b.channels[c].psubs) : b.channels[c].psubs[i] = s
        \/ \E g \in DOMAIN b.channels[c].qsubs :
              \E i \in 1..Len(b.channels[c].qsubs[g].subs) :
                  b.channels[c].qsubs[g].subs[i] = s

\* s is the value of a key of the durables index of a channel.
InDurables(b, s) ==
    \E c \in DOMAIN b.channels :
        \E k \in DOMAIN b.channels[c].durables : b.channels[c].durables[k] = s

\* s is the value of a key of the ack-inbox index of a channel.
InAcks(b, s) ==
    \E c \in DOMAIN b.channels :
        \E k \in DOMAIN b.channels[c].acks : b.channels[c].acks[k] = s

\* s is in the subs list of a client.
InClientSubs(b, s) ==
    \E c \in DOMAIN b.clients :
        \E i \in 1..Len(b.clients[c].subs) : b.clients[c].subs[i] = s

\* C12: after the Close request of a registered client, the clientID is not
\* registered, every non-durable subscription that had the clientID is in
\* no plain list and in no queue group, and every durable subscription that
\* had the clientID is still in the durables index with an empty clientID.
CloseDetaches ==
    [][(HasClient(srv, "c1") /\ CloseRequest("c1")) =>
          /\ ~HasClient(srv', "c1")
          /\ \A s \in Subs :
                srv.subs[s].clientID = "c1" =>
                    IF isDurable(srv.subs[s])
                    THEN srv'.subs[s].clientID = "" /\ InDurables(srv', s)
                    ELSE ~InSubscriptionSet(srv', s)]_vars

\* C13: after an Unsubscribe that is answered without error, the
\* subscription is in no plain list, in no queue group, not in the ack-inbox
\* index, in no client's subs list and not in the durables index.
UnsubscribeRemovesAll ==
    [][\A req \in UnsubRequests :
          LET r == unsubscribeRequest(srv, req)
          IN  (Unsubscribe(req) /\ r.resp = OK) =>
                  /\ ~InSubscriptionSet(srv', r.s)
                  /\ ~InAcks(srv', r.s)
                  /\ ~InClientSubs(srv', r.s)
                  /\ ~InDurables(srv', r.s)]_vars

\* C14: a queue group whose last member has left is removed from the
\* channel: no channel has a queue group without members.
NoEmptyGroup ==
    \A c \in DOMAIN srv.channels :
        \A g \in DOMAIN srv.channels[c].qsubs :
            srv.channels[c].qsubs[g].subs # <<>>

\* The members of the group of subscription s, s apart.
OtherMembers(b, s) ==
    LET sl == b.channels[b.subs[s].subject].qsubs[b.subs[s].qstate].subs
    IN  {sl[i] : i \in 1..Len(sl)} \ {s}

\* C15: when a member of a queue group leaves by an Unsubscribe while
\* messages are in flight to it and the group has another member, each of
\* these messages is in flight on a remaining member after the request and
\* has been sent to that member with redelivered = true.
LeaverPendingTransferred ==
    [][\A req \in UnsubRequests :
          LET r == unsubscribeRequest(srv, req)
          IN  (/\ Unsubscribe(req)
               /\ r.resp = OK
               /\ srv.subs[r.s].qstate # ""
               /\ OtherMembers(srv, r.s) # {}) =>
                  \A seq \in DOMAIN srv.subs[r.s].acksPending :
                      \E o \in OtherMembers(srv, r.s) :
                          /\ seq \in DOMAIN srv'.subs[o].acksPending
                          /\ \E k \in 1..Len(srv'.out[o]) :
                                /\ srv'.out[o][k].seq = seq
                                /\ srv'.out[o][k].redelivered]_vars

\* No sequence is sent twice as a new message to the members a queue group
\* has or had.
GroupNoRepeat ==
    \A s, o \in Subs :
        \A i \in 1..Len(srv.out[s]), j \in 1..Len(srv.out[o]) :
            (/\ srv.subs[s].qgroup # ""
             /\ srv.subs[o].qgroup = srv.subs[s].qgroup
             /\ srv.subs[o].subject = srv.subs[s].subject
             /\ <<s, i>> # <<o, j>>
             /\ ~srv.out[s][i].redelivered
             /\ ~srv.out[o][j].redelivered)
                => srv.out[s][i].seq # srv.out[o][j].seq

----------------------------------------------------------------------------
(***************************************************************************)
(* Properties of the heartbeats.                                           *)
(***************************************************************************)
\* C16: when a heartbeat that is not answered takes the counter of failed
\* heartbeats of a client beyond the maximum, the callback ends and it
\* leaves the broker as a Close of the client leaves it: the client
\* unregistered, its subscriptions that are not durable removed, its
\* durable ones detached.
HeartbeatTimeoutCloses ==
    [][\A c \in Clients :
         (/\ HasClient(srv, c)
          /\ srv.clients[c].fhb + 1 > ScaledMaxFailedHeartBeats
          /\ HeartbeatTimerFires(c, FALSE))
         => /\ srv' = closeClient(srv, c)
            /\ ~ClientLocked(srv', c)]_vars

\* The new deliveries of a step to subscription s that are redeliveries.
Redeliveries(s) ==
    {k \in (Len(srv.out[s]) + 1)..Len(srv'.out[s]) : srv'.out[s][k].redelivered}

\* C17: no step redelivers a message to a subscription whose client is not
\* registered or has failed heartbeats.
NoRedeliveryToUnreachable ==
    [][\A s \in 1..Len(srv.subs) :
         Redeliveries(s) # {}
         => /\ HasClient(srv', srv'.subs[s].clientID)
            /\ srv'.clients[srv'.subs[s].clientID].fhb = 0]_vars

----------------------------------------------------------------------------
(***************************************************************************)
(* Properties of the start positions.                                      *)
(***************************************************************************)
\* The sequences sent to subscription s that are not redeliveries, in the
\* order they were sent.
FirstDeliveries(s) == SelectSeq(srv.out[s], LAMBDA d : ~d.redelivered)

\* C19: a subscription created with start position NewOnly, plain or the
\* first member of a new queue group, is never sent as a first delivery a
\* message whose sequence is at most the last sequence the channel had when
\* the request was handled; and once its handler is done, its lastSent is at
\* least that sequence.
NewOnlySkipsOld ==
    \A s \in DOMAIN hist.started :
      LET st == hist.started[s]
      IN  (st.pos = NewOnly /\ st.fresh /\ srv.subs[s].durableName = "")
          => /\ \A k \in 1..Len(FirstDeliveries(s)) :
                   FirstDeliveries(s)[k].seq > st.last
             /\ (pc.sub.step = "idle" => srv.subs[s].lastSent >= st.last)

\* The request for a plain subscription that starts at sequence seq.
SequenceStartAt(seq) == SubReq("c1", Foo, "", "", 1, 1, SequenceStart, seq)

\* C20: a request with start position SequenceStart and a sequence below
\* the first or above the last of the log of the channel gets
\* ErrInvalidSequence; a subscription created by one that is accepted is
\* sent the message with that sequence first.
SequenceStartHonoured ==
    /\ \A seq \in 0..(MaxMsgs + 1) :
         LET ms == IF HasChannel(srv, Foo) THEN srv.channels[Foo].msgs
                   ELSE NewMsgStore
         IN  (seq < ms.first \/ seq > ms.last)
             => subscriptionRequest(srv, SequenceStartAt(seq)).resp = ErrInvalidSequence
    /\ \A s \in DOMAIN hist.started :
         (hist.started[s].pos = SequenceStart /\ srv.out[s] # <<>>)
         => srv.out[s][1].seq = hist.started[s].seq

----------------------------------------------------------------------------
(***************************************************************************)
(* Properties of the request handlers, continued.                          *)
(***************************************************************************)
\* The request gets past the checks of AckWait, subject and clientID
\* (992-1013), which come before the conflict rules.
PassesFirstChecks(sr) ==
    sr.AckWaitInSecs > 0 /\ isValidSubject(sr.Subject) /\ sr.ClientID # ""

\* The durable key of the request is bound to a subscription with a
\* clientID.
DurableBound(b, sr) ==
    /\ sr.DurableName # ""
    /\ HasChannel(b, sr.Subject)
    /\ LET key == durableKey(sr.ClientID, sr.Subject, sr.DurableName)
           durables == b.channels[sr.Subject].durables
       IN  key \in DOMAIN durables /\ b.subs[durables[key]].clientID # ""

LogOf(b) == IF HasChannel(b, Foo) THEN b.channels[Foo].msgs ELSE NewMsgStore

\* Delivery was attempted to every plain subscriber and every queue group
\* of the channel: each was sent all the log holds, or the send was refused
\* at maxInFlight, or the group has no member.
AllAttempted(b, subject) ==
    LET cs == b.channels[subject]
    IN  /\ \A i \in 1..Len(cs.psubs) :
             \/ b.subs[cs.psubs[i]].lastSent = cs.msgs.last
             \/ b.subs[cs.psubs[i]].stalled
        /\ \A g \in DOMAIN cs.qsubs :
             \/ cs.qsubs[g].lastSent = cs.msgs.last
             \/ cs.qsubs[g].stalled
             \/ cs.qsubs[g].subs = <<>>

\* C22: a valid Publish is first answered with a PubAck of its guid; then
\* one message, with the sequence last + 1, is appended to the log of the
\* channel; then delivery is attempted to every plain subscriber and every
\* queue group of the channel.  A Publish that is not valid is answered
\* with an error and nothing is appended.  The log changes in no other way.
PublishInOrder ==
    [][/\ \A pm \in {ValidPub} \cup RefusedPubMsgs :
            PublishAck(pm)
            => /\ srv' = srv
               /\ IF pm.Guid # "" /\ HasClient(srv, pm.ClientID) /\ ~HasWildcard(pm.Subject)
                  THEN pc'.pub.step = "store" /\ pc'.pub.ack.Guid = pm.Guid
                       /\ pc'.pub.ack.Error = "" /\ last' = last
                  ELSE pc' = pc /\ last' = [kind |-> "publish", resp |-> ErrBadPubMsg]
       /\ LogOf(srv') # LogOf(srv)
            => /\ pc.pub.step = "store"
               /\ pc.pub.ack.Guid = pc.pub.pm.Guid
               /\ LogOf(srv').last = LogOf(srv).last + 1
               /\ LogOf(srv').first = LogOf(srv).first
               /\ DOMAIN LogOf(srv').msgs = DOMAIN LogOf(srv).msgs \cup {LogOf(srv').last}
               /\ \A q \in DOMAIN LogOf(srv).msgs : LogOf(srv').msgs[q] = LogOf(srv).msgs[q]
               /\ LogOf(srv').msgs[LogOf(srv').last].Sequence = LogOf(srv').last
               /\ pc'.pub.step = "fanout"
       /\ (pc.pub.step = "store" /\ pc'.pub.step = "fanout")
            => LogOf(srv').last = LogOf(srv).last + 1
       /\ (pc.pub.step = "fanout" /\ pc'.pub.step = "idle")
            => AllAttempted(srv', pc.pub.subject)]_vars

\* Two messages were published; the plain subscriber and the queue group
\* were each sent the first, and the fan-out of the second has ended.
PublishedToAll ==
    /\ pc.pub.step = "idle"
    /\ LogOf(srv).last = 2
    /\ Len(srv.subs) = 2
    /\ \E s, q \in 1..Len(srv.subs) :
         /\ srv.subs[s].qgroup = "" /\ srv.subs[q].qgroup = "g"
         /\ Len(srv.out[s]) >= 1 /\ srv.out[s][1].seq = 1
         /\ Len(srv.out[q]) >= 1 /\ srv.out[q][1].seq = 1
         /\ srv.subs[s].stalled
         /\ srv.channels[Foo].qsubs["g"].stalled

----------------------------------------------------------------------------
(***************************************************************************)
(* Properties of the delivery, continued.                                  *)
(***************************************************************************)
\* The subscriptions ever created in queue group g that were sent the
\* message with sequence seq as a first delivery.
FirstReceivers(g, seq) ==
    {s \in 1..Len(srv.subs) :
        /\ srv.subs[s].qgroup = g
        /\ \E k \in 1..Len(srv.out[s]) :
             srv.out[s][k].seq = seq /\ ~srv.out[s][k].redelivered}

\* C23: every message is sent as a first delivery to at most one member of
\* a queue group, and to that member once.
QueueFirstDeliveryOnce ==
    \A seq \in 1..MaxMsgs :
      /\ Cardinality(FirstReceivers("g", seq)) <= 1
      /\ \A s \in FirstReceivers("g", seq) :
           Cardinality({k \in 1..Len(srv.out[s]) :
                          srv.out[s][k].seq = seq /\ ~srv.out[s][k].redelivered}) = 1

\* Two members of the group were each sent one of two messages first, and
\* one of them was sent the message of the other again, as a redelivery.
QueueSharedOut ==
    /\ Len(srv.subs) = 2
    /\ srv.subs[1].qgroup = "g" /\ srv.subs[2].qgroup = "g"
    /\ FirstReceivers("g", 1) = {1}
    /\ FirstReceivers("g", 2) = {2}
    /\ \E k \in 1..Len(srv.out[1]) :
         srv.out[1][k].seq = 2 /\ srv.out[1][k].redelivered

\* C25: a subscription of a connected client has an ack timer that is
\* armed if messages are in flight to it and no ack timer if none is.
TimerMatchesInFlight ==
    \A s \in 1..Len(srv.subs) :
        srv.subs[s].clientID # ""
        => IF DOMAIN srv.subs[s].acksPending # {}
           THEN srv.subs[s].ackTimer = "armed"
           ELSE srv.subs[s].ackTimer = "nil"

\* The subscriptions created in queue group g.
GroupSubs(g) == {s \in 1..Len(srv.subs) : srv.subs[s].qgroup = g}

\* C26: a message that was sent to a member of a queue group and was not
\* acknowledged is in flight to a member of the group, as long as the
\* group has members: a redelivery that takes it from the in-flight set of
\* one member records it in that of the member it is sent to.
QueueInFlightKept ==
    \A seq \in 1..MaxMsgs :
        (/\ \E s \in GroupSubs("g") :
               \E k \in 1..Len(srv.out[s]) : srv.out[s][k].seq = seq
         /\ <<"g", seq>> \notin hist.acked
         /\ srv.channels[Foo].qsubs["g"].subs # <<>>)
        => \E o \in GroupSubs("g") : seq \in DOMAIN srv.subs[o].acksPending

\* What a step sent to the inbox of subscription o.
NewOut(o) == SubSeq(srv'.out[o], Len(srv.out[o]) + 1, Len(srv'.out[o]))

\* msgStore.Lookup gives every message of the log with its own sequence and
\* redelivered = false.
LogNeverRedelivered ==
    \A q \in DOMAIN LogOf(srv).msgs :
        /\ msgStoreLookup(LogOf(srv), q).Sequence = q
        /\ ~msgStoreLookup(LogOf(srv), q).Redelivered

\* What the callback of the ack timer of subscription s sent when the first
\* k of its in-flight messages, by sequence, had expired.
ExpiredSentInOrder(s, k) ==
    LET keys == SortedKeys(DOMAIN srv.subs[s].acksPending)
        live == /\ HasClient(srv, srv.subs[s].clientID)
                /\ srv.clients[srv.subs[s].clientID].fhb = 0
    IN  /\ \A o \in Subs :
              /\ \A i \in 1..Len(NewOut(o)) :
                    /\ NewOut(o)[i].redelivered
                    /\ \E j \in 1..k : NewOut(o)[i].seq = keys[j]
              /\ \A i, j \in 1..Len(NewOut(o)) :
                    i < j => NewOut(o)[i].seq < NewOut(o)[j].seq
        /\ (srv.subs[s].qstate = "" /\ live)
              => NewOut(s) = [i \in 1..k |->
                                [seq |-> keys[i], redelivered |-> TRUE,
                                 inbox |-> srv.subs[s].inbox]]
        /\ ~live => \A o \in Subs : NewOut(o) = <<>>

StalledOnlyAtMax ==
    \A s \in 1..Len(srv.subs) :
        srv.subs[s].stalled => NumPending(srv, s) >= srv.subs[s].maxInFlight

\* The messages of the log of the channel of foo.
Stored == {LogOf(srv).msgs[q] : q \in DOMAIN LogOf(srv).msgs}

\* While nc.Publish fails, a send to a subscription below its maxInFlight
\* returns false and changes nothing, and a send to a queue group returns
\* false and leaves the lastSent of the group, the subscriptions and what
\* was sent as they are.
FailedSendKeepsState ==
    ~srv.ncOk
    => /\ \A s \in 1..Len(srv.subs), m \in Stored :
            NumPending(srv, s) < srv.subs[s].maxInFlight
            => LET r == sendMsgToSub(srv, s, m)
               IN  ~r.ok /\ r.b = srv
       /\ \A m \in Stored :
            \A g \in (IF HasChannel(srv, Foo) THEN DOMAIN srv.channels[Foo].qsubs ELSE {}) :
              LET qs == srv.channels[Foo].qsubs[g]
                  best == findBestQueueSub(srv, qs.subs)
                  r == sendMsgToQueueGroup(srv, Foo, g, m)
              IN  (best # NoSub /\ NumPending(srv, best) < srv.subs[best].maxInFlight)
                  => /\ ~r.ok
                     /\ r.b.channels[Foo].qsubs[g].lastSent = qs.lastSent
                     /\ r.b.subs = srv.subs
                     /\ r.b.out = srv.out

----------------------------------------------------------------------------
(***************************************************************************)
(* Liveness of the delivery.                                               *)
(***************************************************************************)
\* The messages 1..n have all been sent to the inbox of subscription s.
SentUpTo(s, n) ==
    /\ s \in Subs
    /\ \A seq \in 1..n : \E k \in 1..Len(srv.out[s]) : srv.out[s][k].seq = seq

\* Subscription s has just been stored by its Subscribe request, the log of
\* its channel holding the messages 1..n.
AttachedAt(s, n) ==
    /\ pc.sub.step = "init" /\ pc.sub.s = s
    /\ pc.sub.sr.DurableName = "" /\ pc.sub.sr.QGroup = ""
    /\ pc.sub.sr.StartPosition = First
    /\ srv.channels[pc.sub.sr.Subject].msgs.last = n

\* C3: every message of the log at the time a plain subscription with start
\* position First is attached is eventually sent to its inbox.
FirstEventuallyDelivered ==
    \A s \in {1} : \A n \in 1..MaxMsgs : AttachedAt(s, n) ~> SentUpTo(s, n)

\* A subscription with maxInFlight 1 that was sent message 1 and, after the
\* ack, message 2, the last of the log.
FirstDeliveredAll ==
    \E s \in Subs :
        /\ srv.subs[s].maxInFlight = 1
        /\ srv.out[s] = <<[seq |-> 1, redelivered |-> FALSE, inbox |-> srv.subs[s].inbox],
                          [seq |-> 2, redelivered |-> FALSE, inbox |-> srv.subs[s].inbox]>>
        /\ srv.channels[Foo].msgs.last = 2

\* C24: a subscriber, plain or the only member of a queue group, that
\* acknowledges every message it receives is eventually sent every message
\* the log holds, also when the log holds more than its maxInFlight.
ResumesAfterAcks ==
    \A n \in 1..MaxMsgs :
        (Len(srv.subs) = 1 /\ srv.channels[Foo].msgs.last >= n) ~> SentUpTo(1, n)

\* The only member of a queue group, with maxInFlight 1, was refused
\* message 2 and was sent it after the ack of message 1.
QueueMemberDeliveredAll ==
    /\ Len(srv.subs) = 1
    /\ srv.subs[1].qgroup = "g"
    /\ srv.subs[1].maxInFlight = 1
    /\ srv.out[1] = <<[seq |-> 1, redelivered |-> FALSE, inbox |-> srv.subs[1].inbox],
                      [seq |-> 2, redelivered |-> FALSE, inbox |-> srv.subs[1].inbox]>>
    /\ srv.channels[Foo].msgs.last = 2

----------------------------------------------------------------------------
(***************************************************************************)
(* The locks.  Every handler of a NATS subscription and every timer        *)
(* callback runs on a goroutine of its own; SpecLocks keeps of each only   *)
(* the calls of Lock, RLock, Unlock and RUnlock it makes, in the order of  *)
(* the code, on the locks of one client, the channelMap, the subStore of   *)
(* one channel, one queueState, and three subscriptions: the plain "p" and *)
(* the members "q1" and "q2" of the group.  pc holds, for each goroutine,  *)
(* the calls it has yet to make and the locks it holds.  The lock of the   *)
(* msgStore is taken and released inside Lookup and Store and has no       *)
(* number; the clientStore is not in the source.                           *)
(***************************************************************************)
ClientLock == "client"
ChannelMapLock == "cm"
SubStoreLock == "ss"
QueueStateLock == "qs"
SubLock(sub) == "sub:" \o sub

PlainSubs == {"p"}
QueueSubs == {"q1", "q2"}

\* The number of a lock in the order of the locks.
LockLevel(l) ==
    CASE l = ClientLock -> 5
      [] l = ChannelMapLock -> 4
      [] l = SubStoreLock -> 3
      [] l = QueueStateLock -> 2
      [] OTHER -> 1

\* A call of Lock or RLock, with what the goroutine reads or writes of the
\* member list of the queue group (qs.subs) before it releases the lock:
\* "read", "write" or nothing.
LockFor(l, use) == <<[a |-> "Lock", l |-> l, use |-> use]>>
RLockFor(l, use) == <<[a |-> "RLock", l |-> l, use |-> use]>>

Lock(l) == LockFor(l, "")
Unlock(l) == <<[a |-> "Unlock", l |-> l, use |-> ""]>>
RLock(l) == RLockFor(l, "")
RUnlock(l) == <<[a |-> "RUnlock", l |-> l, use |-> ""]>>

\* channelMap.Lookup
channelsLookupLocks == RLock(ChannelMapLock) \o RUnlock(ChannelMapLock)

\* subStore.LookupByAckInbox, subStore.LookupByDurable
subsLookupLocks == RLock(SubStoreLock) \o RUnlock(SubStoreLock)

\* sendAvailableMessages(cs, sub)
sendAvailableMessagesLocks(sub) == Lock(SubLock(sub)) \o Unlock(SubLock(sub))

\* sendAvailableMessagesToQueue(cs, qs): qs.Lock for the loop, and in
\* sendMsgToQueueGroup the lock of the member findBestQueueSub gave.
sendAvailableMessagesToQueueLocks(member) ==
    LockFor(QueueStateLock, "read")
        \o Lock(SubLock(member)) \o Unlock(SubLock(member))
        \o Unlock(QueueStateLock)

\* processClientPublish: assignAndStore, then processMsg with the read lock
\* of the subStore over the plain subscriptions and the queue groups.
processMsgLocks(member) ==
    channelsLookupLocks
        \o RLock(SubStoreLock)
        \o sendAvailableMessagesLocks("p")
        \o sendAvailableMessagesToQueueLocks(member)
        \o RUnlock(SubStoreLock)

\* A faulty processAck: the lock of the subscription is held to the end.
processAckLocksHoldingSub(sub, stalled) ==
    channelsLookupLocks \o subsLookupLocks
        \o Lock(SubLock(sub))
        \o (IF sub \in QueueSubs
            THEN Lock(QueueStateLock) \o Unlock(QueueStateLock)
            ELSE <<>>)
        \o Unlock(SubLock(sub))

\* processAckMsg and processAck, of an ack to subscription sub.
processAckLocks(sub, stalled) ==
    channelsLookupLocks \o subsLookupLocks
        \o Lock(SubLock(sub)) \o Unlock(SubLock(sub))
        \o (IF sub \in QueueSubs
            THEN Lock(QueueStateLock) \o Unlock(QueueStateLock)
            ELSE <<>>)
        \o (IF ~stalled THEN <<>>
            ELSE IF sub \in QueueSubs
            THEN sendAvailableMessagesToQueueLocks(sub)
            ELSE sendAvailableMessagesLocks(sub))

\* performRedelivery(sub, ...) that sends one message; qsub is the member
\* findBestQueueSub gave.
performRedeliveryLocks(sub, qsub) ==
    RLock(SubLock(sub)) \o RUnlock(SubLock(sub))
        \o RLock(ClientLock) \o RUnlock(ClientLock)
        \o (IF sub \in QueueSubs
            THEN Lock(SubLock(sub)) \o Unlock(SubLock(sub))
                    \o channelsLookupLocks
                    \o RLockFor(SubStoreLock, "read") \o RUnlock(SubStoreLock)
                    \o Lock(SubLock(qsub)) \o Unlock(SubLock(qsub))
            ELSE <<>>)

\* subStore.Remove(sub)
subsRemoveLocks(sub) ==
    Lock(SubLock(sub)) \o Unlock(SubLock(sub))
        \o LockFor(SubStoreLock, IF sub \in QueueSubs THEN "write" ELSE "")
        \o Unlock(SubStoreLock)

\* subStore.Store(sub)
subsStoreLocks(sub) ==
    RLock(SubLock(sub)) \o RUnlock(SubLock(sub))
        \o LockFor(SubStoreLock, IF sub \in QueueSubs THEN "write" ELSE "")
        \o Unlock(SubStoreLock)

\* removeAllNonDurableSubscribers of a client whose subscription is sub.
removeAllNonDurableSubscribersLocks(sub) ==
    RLock(ClientLock)
        \o Lock(SubLock(sub)) \o Unlock(SubLock(sub))
        \o channelsLookupLocks
        \o subsRemoveLocks(sub)
        \o RUnlock(ClientLock)

\* checkClientHealth: client.Lock and the deferred client.Unlock and, when
\* the failures have passed the maximum, the deferred closeClient, which
\* runs before the Unlock.
checkClientHealthLocks(sub, timedOut) ==
    Lock(ClientLock)
        \o (IF timedOut THEN removeAllNonDurableSubscribersLocks(sub) ELSE <<>>)
        \o Unlock(ClientLock)

\* processUnSubscribeRequest
processUnSubscribeRequestLocks(sub) ==
    channelsLookupLocks \o subsLookupLocks \o subsRemoveLocks(sub)

\* processSubscriptionRequest of a new subscription with start position
\* First: Store, then sendMessagesFromSequence.
processSubscriptionRequestLocks(sub) ==
    channelsLookupLocks
        \o subsStoreLocks(sub)
        \o Lock(SubLock(sub)) \o Unlock(SubLock(sub))
        \o (IF sub \in QueueSubs
            THEN sendAvailableMessagesToQueueLocks(sub)
            ELSE sendAvailableMessagesLocks(sub))

\* The goroutines that may run at a time.
MaxWorkers == 3
Workers == 1..MaxWorkers

AllSubs == PlainSubs \cup QueueSubs

\* What a goroutine may be started for.
Handlers ==
    {processMsgLocks(m) : m \in QueueSubs}
        \cup {processAckLocks(s, st) : s \in AllSubs, st \in BOOLEAN}
        \cup {performRedeliveryLocks(s, q) : s \in AllSubs, q \in QueueSubs}
        \cup {checkClientHealthLocks("p", to) : to \in BOOLEAN}
        \cup {removeAllNonDurableSubscribersLocks(s) : s \in {"p", "q1"}}
        \cup {processUnSubscribeRequestLocks(s) : s \in {"p", "q2"}}
        \cup {processSubscriptionRequestLocks(s) : s \in {"p", "q1"}}

NoCalls == [todo |-> <<>>, held |-> <<>>]

InitLocks ==
    /\ srv = InitBroker
    /\ pc = [w \in Workers |-> NoCalls]
    /\ last = [kind |-> "none", resp |-> OK]
    /\ hist = InitHist

\* Whether goroutine w holds lock l, and in which modes.
Holds(w, l, modes) ==
    \E i \in 1..Len(pc[w].held) : pc[w].held[i].l = l /\ pc[w].held[i].m \in modes

\* sync.RWMutex: Lock returns when nobody holds the lock, RLock when nobody
\* holds it for writing.
CanTake(call) ==
    IF call.a = "Lock"
    THEN \A v \in Workers : ~Holds(v, call.l, {"W", "R"})
    ELSE \A v \in Workers : ~Holds(v, call.l, {"W"})

\* held without its last entry for lock l.
RECURSIVE DropLast(_, _)
DropLast(held, l) ==
    IF held = <<>> THEN <<>>
    ELSE IF held[Len(held)].l = l THEN SubSeq(held, 1, Len(held) - 1)
    ELSE Append(DropLast(SubSeq(held, 1, Len(held) - 1), l), held[Len(held)])

\* A request or a timer starts a goroutine: the first of those that run
\* nothing.
StartHandler(w) ==
    /\ pc[w] = NoCalls
    /\ \A v \in Workers : v < w => pc[v] # NoCalls
    /\ \E h \in Handlers : pc' = [pc EXCEPT ![w].todo = h]
    /\ UNCHANGED <<srv, last, hist>>

\* Lock or RLock returns.
LockReturns(w) ==
    /\ pc[w].todo # <<>>
    /\ LET call == Head(pc[w].todo)
       IN  /\ call.a \in {"Lock", "RLock"}
           /\ CanTake(call)
           /\ pc' = [pc EXCEPT ![w].todo = Tail(@),
                               ![w].held = Append(@,
                                   [l |-> call.l,
                                    m |-> IF call.a = "Lock" THEN "W" ELSE "R",
                                    use |-> call.use])]
    /\ UNCHANGED <<srv, last, hist>>

\* Unlock or RUnlock.
UnlockCalled(w) ==
    /\ pc[w].todo # <<>>
    /\ LET call == Head(pc[w].todo)
       IN  /\ call.a \in {"Unlock", "RUnlock"}
           /\ pc' = [pc EXCEPT ![w].todo = Tail(@),
                               ![w].held = DropLast(@, call.l)]
    /\ UNCHANGED <<srv, last, hist>>

NextLocks ==
    \/ \E w \in Workers : StartHandler(w)
    \/ \E w \in Workers : LockReturns(w)
    \/ \E w \in Workers : UnlockCalled(w)

SpecLocks == InitLocks /\ [][NextLocks]_vars

\* Goroutine w is in a call of Lock or RLock that does not return as long
\* as goroutine v holds what it holds.
WaitsFor(w, v) ==
    /\ pc[w].todo # <<>>
    /\ LET call == Head(pc[w].todo)
       IN  /\ call.a \in {"Lock", "RLock"}
           /\ Holds(v, call.l, IF call.a = "Lock" THEN {"W", "R"} ELSE {"W"})

\* No goroutines wait for each other's locks: no cycle of two or three
\* goroutines each of which waits for the next.
NoMutualWait ==
    /\ \A w, v \in Workers :
          w # v => ~(WaitsFor(w, v) /\ WaitsFor(v, w))
    /\ \A w, v, u \in Workers :
          (w # v /\ v # u /\ u # w)
              => ~(WaitsFor(w, v) /\ WaitsFor(v, u) /\ WaitsFor(u, w))

\* The locks a goroutine holds were taken from the lower numbers up.
TakenUpwards ==
    \A w \in Workers :
        \A i, j \in 1..Len(pc[w].held) :
            i < j => LockLevel(pc[w].held[i].l) <= LockLevel(pc[w].held[j].l)

\* The locks a goroutine holds were taken from the higher numbers down.
TakenDownwards ==
    \A w \in Workers :
        \A i, j \in 1..Len(pc[w].held) :
            i < j => LockLevel(pc[w].held[i].l) >= LockLevel(pc[w].held[j].l)

\* C30, as the spec states it: no goroutine takes a lock of a lower number
\* while it holds one of a higher number, and no goroutines wait for each
\* other's locks.
LockOrderAscending == TakenUpwards /\ NoMutualWait

\* C30, as the code has it: no goroutine takes a lock of a higher number
\* while it holds one of a lower number, and no goroutines wait for each
\* other's locks.
LockOrderDescending == TakenDownwards /\ NoMutualWait

\* The fan-out of a publish holds the read lock of the subStore, the lock
\* of the queue group and the lock of a member at once, while a second
\* goroutine waits for the lock of that member.
FanoutHoldsThree ==
    \E w, v \in Workers :
        /\ w # v
        /\ [i \in 1..Len(pc[w].held) |-> LockLevel(pc[w].held[i].l)] = <<3, 2, 1>>
        /\ WaitsFor(v, w)

\* Goroutine w is between a Lock or RLock and the Unlock or RUnlock of a
\* section of the code that uses the member list of the queue group so.
UsesMembers(w, uses) ==
    \E i \in 1..Len(pc[w].held) : pc[w].held[i].use \in uses

\* C31: the member list of a queue group is not read or written by one
\* goroutine while another writes it.
NoMemberListRace ==
    \A w, v \in Workers :
        w # v => ~(UsesMembers(w, {"write"}) /\ UsesMembers(v, {"read", "write"}))

----------------------------------------------------------------------------
(***************************************************************************)
(* The search by timestamp.  SpecSearch draws a log, as its first sequence *)
(* and the timestamps of its messages in the order of their sequences, and *)
(* a timestamp, and applies the search of GetSequenceFromTimestamp and of  *)
(* sendMessagesToSubFromTime to them; last holds what the search returned. *)
(***************************************************************************)
\* The messages of a log and the timestamps under SpecSearch.
MaxStamps == 3
MaxTime == 4

\* The timestamps of the stores come from time.Now(): they do not decrease.
NonDecreasing(stamps) ==
    \A i, j \in 1..Len(stamps) : i < j => stamps[i] <= stamps[j]

StampedLogs ==
    {[first |-> f, stamps |-> s] :
        f \in 1..2,
        s \in {x \in UNION {[1..n -> 1..MaxTime] : n \in 0..MaxStamps} :
                 NonDecreasing(x)}}

InitSearch ==
    /\ srv \in StampedLogs
    /\ pc = [step |-> "idle"]
    /\ last = 0
    /\ hist = InitHist

SearchByStore(timestamp) ==
    /\ pc.step = "idle"
    /\ pc' = [step |-> "found", by |-> "store", timestamp |-> timestamp]
    /\ last' = GetSequenceFromTimestamp(srv, timestamp)
    /\ UNCHANGED <<srv, hist>>

SearchBySend(startTime) ==
    /\ pc.step = "idle"
    /\ pc' = [step |-> "found", by |-> "send", timestamp |-> startTime]
    /\ last' = startSeqFromTime(srv, startTime)
    /\ UNCHANGED <<srv, hist>>

NextSearch ==
    \/ \E ts \in 0..(MaxTime + 1) : SearchByStore(ts)
    \/ \E ts \in 0..(MaxTime + 1) : SearchBySend(ts)

SpecSearch == InitSearch /\ [][NextSearch]_vars

\* The sequences of the log whose message is not earlier than the timestamp.
NotEarlier(ms, timestamp) ==
    {ms.first + k - 1 : k \in {q \in 1..Len(ms.stamps) : ms.stamps[q] >= timestamp}}

\* C32: the search returns the smallest sequence of [first, last] whose
\* timestamp is at or after the one given, so first when all are, and
\* last + 1 when none is.
SearchFindsFirstNotEarlier ==
    pc.step = "found" =>
        LET later == NotEarlier(srv, pc.timestamp)
            lastSeq == srv.first + Len(srv.stamps) - 1
        IN  IF later = {} THEN last = lastSeq + 1
            ELSE /\ last \in later
                 /\ \A q \in later : last <= q

\* A search that returned a sequence after the first and before the last.
SearchFoundInside ==
    /\ pc.step = "found"
    /\ Len(srv.stamps) = 3
    /\ last = srv.first + 1
    /\ srv.stamps[2] >= pc.timestamp /\ srv.stamps[1] < pc.timestamp

----------------------------------------------------------------------------
(***************************************************************************)
(* SpecTime: plain subscriptions with start position TimeDeltaStart, whose *)
(* start time (now - delta) is before, among or after the timestamps of    *)
(* the messages of the channel.                                            *)
(***************************************************************************)
TimeDeltaReq(startTime) ==
    [ClientID |-> "c1", Subject |-> Foo, QGroup |-> "", DurableName |-> "",
     MaxInFlight |-> 2, AckWaitInSecs |-> 1, StartPosition |-> TimeDeltaStart,
     StartSequence |-> 0, StartTime |-> startTime]

TimeRequests == {TimeDeltaReq(t) : t \in 0..(TickPerStore * MaxMsgs + 1)}

NextTime ==
    \/ ~HasClient(srv, "c1") /\ ConnectLookup("c1")
    \/ ConnectRegister
    \/ HasClient(srv, "c1") /\ Publish(ValidPub)
    \/ PublishFanout
    \/ \E sr \in TimeRequests : HasClient(srv, "c1") /\ Subscribe(sr)
    \/ SubscribeInit
    \/ SubscribeSend
    \/ \E i \in srv.ackSubs, seq \in 1..MaxMsgs : Ack(i, Foo, seq)

SpecTime == Init /\ [][NextTime]_vars

\* The start time of the request is before the first or after the last
\* message of the channel, or the channel holds no message.
StartTimeOutOfRange(b, sr) ==
    \/ LogOf(b).last < LogOf(b).first
    \/ sr.StartTime < TimestampOf(LogOf(b).first)
    \/ sr.StartTime > TimestampOf(LogOf(b).last)

\* C33: a request with start position TimeDeltaStart and a start time out
\* of the range of the channel, or for a channel without messages, gets
\* ErrInvalidTime, the handler ends and no subscription is created; any
\* other starts the delivery at the first message not earlier than the
\* start time.
StartTimeChecked ==
    [][/\ \A sr \in TimeRequests :
            Subscribe(sr) =>
                IF StartTimeOutOfRange(srv, sr)
                THEN /\ last' = [kind |-> "subscribe", resp |-> ErrInvalidTime]
                     /\ ~srv'.panicked
                     /\ srv'.subs = srv.subs
                ELSE pc'.sub.step = "init"
       /\ (pc.sub.step = "init" /\ SubscribeInit) =>
            LET later == {q \in LogOf(srv).first..LogOf(srv).last :
                             TimestampOf(q) >= pc.sub.sr.StartTime}
            IN  /\ later # {}
                /\ \A q \in later : srv'.subs[pc.sub.s].lastSent + 1 <= q
                /\ srv'.subs[pc.sub.s].lastSent + 1 \in later]_vars

----------------------------------------------------------------------------
(***************************************************************************)
(* SpecChannels: the goroutines of publishes and subscribe requests that   *)
(* call channelMap.LookupOrCreate, which is a Lookup under the read lock   *)
(* and then, for nil, a New under the write lock.  srv.channels maps a     *)
(* subject to the channelStore the map holds (0 for none) and srv.stores   *)
(* has the channelStores ever made, with what was stored in each; pc has,  *)
(* for each goroutine, the cs it holds.                                    *)
(***************************************************************************)
MaxStores == 3
MaxStored == 2
Bar == <<"b", "a", "r">>
ChannelSubjects == {Foo, Bar}
NoStore == 0

InitChannels ==
    /\ srv = [channels |-> [c \in ChannelSubjects |-> NoStore], stores |-> <<>>]
    /\ pc = [w \in 1..2 |-> [step |-> "idle"]]
    /\ last = [kind |-> "none", resp |-> OK]
    /\ hist = InitHist

\* cs := cm.Lookup(subject), the first statement of LookupOrCreate, in the
\* handler of a publish (op "msgs") or of a subscribe request (op "subs").
ChannelsLookup(w, op, subject) ==
    /\ pc[w].step = "idle"
    /\ pc' = [pc EXCEPT ![w] = [step |-> "looked", op |-> op, subject |-> subject,
                                cs |-> srv.channels[subject]]]
    /\ UNCHANGED <<srv, last, hist>>

\* if cs == nil { cs = cm.New(subject) }: cm.channels[subject] = cs
ChannelsNew(w) ==
    /\ pc[w].step = "looked"
    /\ pc[w].cs = NoStore
    /\ Len(srv.stores) < MaxStores
    /\ srv' = [srv EXCEPT !.stores = Append(@, [subject |-> pc[w].subject,
                                                msgs |-> 0, subs |-> 0]),
                          !.channels[pc[w].subject] = Len(srv.stores) + 1]
    /\ pc' = [pc EXCEPT ![w].cs = Len(srv.stores) + 1]
    /\ UNCHANGED <<last, hist>>

\* cs.msgs.Store(...) of assignAndStore, cs.subs.Store(sub) of
\* processSubscriptionRequest.
ChannelStoreUsed(w) ==
    /\ pc[w].step = "looked"
    /\ pc[w].cs # NoStore
    /\ srv.stores[pc[w].cs][pc[w].op] < MaxStored
    /\ srv' = [srv EXCEPT !.stores[pc[w].cs][pc[w].op] = @ + 1]
    /\ pc' = [pc EXCEPT ![w] = [step |-> "idle"]]
    /\ UNCHANGED <<last, hist>>

NextChannels ==
    \/ \E w \in DOMAIN pc, op \in {"msgs", "subs"}, c \in ChannelSubjects :
          ChannelsLookup(w, op, c)
    \/ \E w \in DOMAIN pc : ChannelsNew(w)
    \/ \E w \in DOMAIN pc : ChannelStoreUsed(w)

SpecChannels == InitChannels /\ [][NextChannels]_vars

\* C34: a subject gets at most one channelStore and keeps it, and every
\* goroutine that has looked up or created the channel of a subject holds
\* the channelStore of the map.
OneStorePerSubject ==
    /\ \A i, j \in 1..Len(srv.stores) :
          srv.stores[i].subject = srv.stores[j].subject => i = j
    /\ \A w \in DOMAIN pc :
          (pc[w].step = "looked" /\ pc[w].cs # NoStore)
              => pc[w].cs = srv.channels[pc[w].subject]

----------------------------------------------------------------------------
\* C35: the ack-inbox index of the channel maps the ackInbox of every
\* subscription that has a clientID to that subscription.
AckIndexCurrent ==
    \A s \in Subs :
        srv.subs[s].clientID # "" =>
            LookupByAckInbox(srv, srv.subs[s].subject, srv.subs[s].ackInbox) = s

\* Subscription s is in the subs list of the client.
InSubsOfClient(b, clientID, s) ==
    /\ HasClient(b, clientID)
    /\ \E i \in 1..Len(b.clients[clientID].subs) : b.clients[clientID].subs[i] = s

\* C36: every durable subscription that a Close detached and a Subscribe of
\* a registered client attached again is in the subs list of that client,
\* so that the next Close of the client detaches it again.
AttachedSubsListed ==
    \A s \in Subs :
        (/\ srv.subs[s].clientID # ""
         /\ HasClient(srv, srv.subs[s].clientID)
         /\ s \in DOMAIN hist.reattached
         /\ hist.reattached[s].known)
            => InSubsOfClient(srv, srv.subs[s].clientID, s)


\* C37: the lastSent of every subscription is at most the last sequence of
\* the log of its channel.
LastSentWithinLog ==
    \A s \in Subs :
        HasChannel(srv, srv.subs[s].subject)
            => srv.subs[s].lastSent <= srv.channels[srv.subs[s].subject].msgs.last


\* Subscription s has been removed: it has no clientID and is in no plain
\* list and in no queue group.
RemovedSub(b, s) == b.subs[s].clientID = "" /\ ~InSubscriptionSet(b, s)

\* C38: no step sends a message to a subscription that has been removed or
\* changes its in-flight set.
RemovedSubQuiet ==
    [][\A s \in Subs :
          RemovedSub(srv, s) =>
              /\ srv'.out[s] = srv.out[s]
              /\ srv'.subs[s].acksPending = srv.subs[s].acksPending]_vars


(***************************************************************************)
(* SpecCapacity: one queue group whose members have different maxInFlight  *)
(* values (1 and 2), with publishes and acks.                               *)
(***************************************************************************)
NextCapacity ==
    \/ ~HasClient(srv, "c1") /\ ConnectLookup("c1")
    \/ ConnectRegister
    \/ HasClient(srv, "c1") /\ Publish(ValidPub)
    \/ PublishFanout
    \/ \E sr \in {QueueFirst, QueueFirstTwo} :
          HasClient(srv, "c1") /\ Accepted(sr) /\ Subscribe(sr)
    \/ SubscribeInit
    \/ SubscribeSend
    \/ \E i \in srv.ackSubs, seq \in 1..MaxMixedMsgs : Ack(i, Foo, seq)

SpecCapacity == Init /\ [][NextCapacity]_vars

\* The member has fewer messages in flight than its maxInFlight.
HasCapacity(b, s) == NumPending(b, s) < b.subs[s].maxInFlight

\* The group is marked stalled and has a stored message beyond its lastSent.
StalledWithBacklog(b, c, g) ==
    /\ HasChannel(b, c)
    /\ g \in DOMAIN b.channels[c].qsubs
    /\ b.channels[c].qsubs[g].stalled
    /\ b.channels[c].qsubs[g].lastSent < b.channels[c].msgs.last

\* C39: in every state where no handler is at work, a queue group that is
\* marked stalled and has a stored message beyond its lastSent has no
\* member with fewer messages in flight than its own maxInFlight.
StalledOnlyWhenAllFull ==
    \A c \in DOMAIN srv.channels :
        \A g \in DOMAIN srv.channels[c].qsubs :
            (pc = InitPc /\ StalledWithBacklog(srv, c, g))
            => \A i \in 1..Len(srv.channels[c].qsubs[g].subs) :
                  ~HasCapacity(srv, srv.channels[c].qsubs[g].subs[i])

----------------------------------------------------------------------------
(***************************************************************************)
(* The client library (stan.go): PublishAsyncWithReply, the callback of    *)
(* the ack timer it starts, processAck and removeAck.                       *)
(*                                                                         *)
(* SpecClient: under it srv is the conn: pubAckMap holds the guids with an *)
(* ack record, t the timer of the ack record of each guid, pubAckChan the  *)
(* length of the buffered channel, acks the PubAcks on their way to the    *)
(* client and ch the handler invocations of a blocking Publish that wait   *)
(* to send their error on its result channel.  pc holds, for each guid,    *)
(* the position of the publishing goroutine, of the processAck callback    *)
(* and of the timer callback; hist the errors the ack handler of each guid *)
(* was invoked with; last the result of the last blocking Publish.         *)
(***************************************************************************)
Guids == 1..MaxGuids

ErrTimeout == "stan: publish ack timeout"
NilErr == "nil"

InitClient ==
    /\ srv = [pubAckMap |-> {}, t |-> [g \in Guids |-> "nil"], pubAckChan |-> 0,
              acks |-> {}, ch |-> [g \in Guids |-> <<>>]]
    /\ pc = [g \in Guids |-> [pub |-> "idle", kind |-> "", ack |-> "idle",
                              timer |-> "idle"]]
    /\ last = [kind |-> "none", resp |-> OK]
    /\ hist = [g \in Guids |-> <<>>]

\* removeAck: the ack record of the guid is taken out of pubAckMap; if there
\* was one, its timer, if set, is stopped (Stop does nothing to a timer that
\* has fired) and an element is taken from pubAckChan if it has any.
removeAck(sc, guid) ==
    LET found == guid \in sc.pubAckMap
        sc1 == [sc EXCEPT !.pubAckMap = @ \ {guid}]
        sc2 == IF found /\ sc.t[guid] = "armed"
               THEN [sc1 EXCEPT !.t[guid] = "stopped"] ELSE sc1
        sc3 == IF found /\ sc.pubAckChan > 0
               THEN [sc2 EXCEPT !.pubAckChan = @ - 1] ELSE sc2
    IN  [sc |-> sc3, a |-> found]

\* The ack handler of the guid is invoked with err: the handler of
\* PublishAsync returns, the handler of a blocking Publish (PublishWithReply)
\* sends err on the unbuffered channel ch and waits for the receiver.
InvokeHandler(sc, guid, kind, err) ==
    IF kind = "blocking" THEN [sc EXCEPT !.ch[guid] = Append(@, err)] ELSE sc

\* PublishAsyncWithReply up to the unlock (281-297): the ack record is put
\* into pubAckMap.  Guids are taken in order.
PublishMap(g, kind) ==
    /\ pc[g].pub = "idle"
    /\ \A h \in Guids : h < g => pc[h].pub # "idle"
    /\ srv' = [srv EXCEPT !.pubAckMap = @ \cup {g}]
    /\ pc' = [pc EXCEPT ![g].pub = "mapped", ![g].kind = kind]
    /\ UNCHANGED <<last, hist>>

\* The send on pubAckChan, which waits while the channel is full, and
\* PublishRequest (300-306): on an error the ack record is removed and the
\* error is returned; otherwise the broker will answer with a PubAck.
PublishRequest(g, ok) ==
    /\ pc[g].pub = "mapped"
    /\ srv.pubAckChan < ScaledMaxPubAcksInflight
    /\ LET sc1 == [srv EXCEPT !.pubAckChan = @ + 1]
       IN  IF ok
           THEN /\ srv' = [sc1 EXCEPT !.acks = @ \cup {g}]
                /\ pc' = [pc EXCEPT ![g].pub = "sent"]
           ELSE /\ srv' = removeAck(sc1, g).sc
                /\ pc' = [pc EXCEPT ![g].pub = "failed"]
    /\ UNCHANGED <<last, hist>>

\* The timer is started and the guid is returned (308-318).
PublishSetTimer(g) ==
    /\ pc[g].pub = "sent"
    /\ srv' = [srv EXCEPT !.t[g] = "armed"]
    /\ pc' = [pc EXCEPT ![g].pub = "returned"]
    /\ UNCHANGED <<last, hist>>

\* PublishWithReply receives from ch (276) and returns what it received.
PublishReceives(g, i) ==
    /\ pc[g].pub = "returned"
    /\ pc[g].kind = "blocking"
    /\ i \in 1..Len(srv.ch[g])
    /\ srv' = [srv EXCEPT !.ch[g] = [j \in 1..(Len(@) - 1) |->
                                        IF j < i THEN @[j] ELSE @[j + 1]]]
    /\ last' = [kind |-> "publish", resp |-> srv.ch[g][i]]
    /\ pc' = [pc EXCEPT ![g].pub = "done"]
    /\ UNCHANGED hist

\* processAck up to removeAck (236-245), for the PubAck of the guid.
PubAckRemove(g) ==
    /\ g \in srv.acks
    /\ pc[g].ack = "idle"
    /\ LET r == removeAck([srv EXCEPT !.acks = @ \ {g}], g)
       IN  /\ srv' = r.sc
           /\ pc' = [pc EXCEPT ![g].ack = IF r.a THEN "found" ELSE "done"]
    /\ UNCHANGED <<last, hist>>

\* processAck: the callback of the ack handler (247-250).
PubAckHandler(g) ==
    /\ pc[g].ack = "found"
    /\ srv' = InvokeHandler(srv, g, pc[g].kind, NilErr)
    /\ hist' = [hist EXCEPT ![g] = Append(@, NilErr)]
    /\ pc' = [pc EXCEPT ![g].ack = "done"]
    /\ UNCHANGED last

\* The timer of the guid fires: its callback starts in its own goroutine.
TimerFires(g) ==
    /\ srv.t[g] = "armed"
    /\ srv' = [srv EXCEPT !.t[g] = "fired"]
    /\ pc' = [pc EXCEPT ![g].timer = "fired"]
    /\ UNCHANGED <<last, hist>>

\* The callback of the timer: removeAck, its result dropped (311).
TimerRemove(g) ==
    /\ pc[g].timer = "fired"
    /\ srv' = removeAck(srv, g).sc
    /\ pc' = [pc EXCEPT ![g].timer = "removed"]
    /\ UNCHANGED <<last, hist>>

\* The callback of the timer: the ack handler is called with ErrTimeout
\* (312-314).
TimerHandler(g) ==
    /\ pc[g].timer = "removed"
    /\ srv' = InvokeHandler(srv, g, pc[g].kind, ErrTimeout)
    /\ hist' = [hist EXCEPT ![g] = Append(@, ErrTimeout)]
    /\ pc' = [pc EXCEPT ![g].timer = "done"]
    /\ UNCHANGED last

NextClient ==
    \/ \E g \in Guids, kind \in {"async", "blocking"} : PublishMap(g, kind)
    \/ \E g \in Guids, ok \in BOOLEAN : PublishRequest(g, ok)
    \/ \E g \in Guids : PublishSetTimer(g)
    \/ \E g \in Guids : \E i \in 1..Len(srv.ch[g]) : PublishReceives(g, i)
    \/ \E g \in Guids : PubAckRemove(g)
    \/ \E g \in Guids : PubAckHandler(g)
    \/ \E g \in Guids : TimerFires(g)
    \/ \E g \in Guids : TimerRemove(g)
    \/ \E g \in Guids : TimerHandler(g)

SpecClient == InitClient /\ [][NextClient]_vars

\* PublishAsyncWithReply returned the guid.
GuidReturned(g) == pc[g].pub \in {"returned", "done"}

\* Nothing is left to run for the guid: no PubAck on its way, no timer
\* armed, no callback at work.
Settled(g) ==
    /\ g \notin srv.acks
    /\ srv.t[g] # "armed"
    /\ pc[g].ack \in {"idle", "done"}
    /\ pc[g].timer \in {"idle", "done"}

\* C40: in every state, the ack handler of every guid that PublishAsync
\* returned has been invoked at most once and, when nothing is left to run
\* for the guid, exactly once; and no invocation waits to send on the
\* result channel of a blocking Publish that has returned.
AckHandlerOnce ==
    \A g \in Guids :
        GuidReturned(g) =>
            /\ Len(hist[g]) <= 1
            /\ Settled(g) => Len(hist[g]) = 1
            /\ pc[g].pub = "done" => srv.ch[g] = <<>>
=============================================================================
